---- MODULE Spec2Model ----
(***************************************************************************)
(* ls1-mardyn: the vectorised cell processor (VectorizedCellProcessor.cpp) *)
(* and the code around it.                                                 *)
(*                                                                         *)
(* Doubles are modelled in fixed point: a "scaled" value v stands for the  *)
(* real v / One.  Positions, orientations, charges, moments and the small  *)
(* literals (three, five, ...) are plain integers; every product of two    *)
(* scaled values is renormalised with Mul.  A SIMD vector is modelled lane *)
(* by lane: all operations of the kernels are lane-wise.                   *)
(***************************************************************************)
EXTENDS Integers, Sequences, FiniteSets, TLC

VARIABLES
    vecType,                  \* VCP_VEC_TYPE of the build: "NOVEC", "SSE3" or "AVX"
    cells,                    \* the ParticleCells: isHaloCell, getCellIndex, molecules, getCellDataSoA
    soas,                     \* every CellDataSoA ever allocated, by slab id
    _particleCellDataVector,  \* the pool: slab ids, back() is the last
    _upot6lj, _upotXpoles, _virial, _myRF,   \* the macroscopic sums of the processor
    lastOp,                   \* the operation performed last and the kernel instance it ran
    nCalls,                   \* number of calls of the processor so far
    budget,                   \* preprocessCell calls initTraversal's numCells still covers
    dl,                       \* state of the walk over the source molecules with calcDistLookup
    lb,                       \* one lane of one pair routine: inputs and outputs
    rk,                       \* two ranks sharing one inter-rank pair
    _domain,                  \* Domain: the rank-local values endTraversal hands over
    nc,                       \* a NeighbourCommunicationScheme of one rank and its partners
    sim,                      \* Simulation: position in initialize() and simulate()
    hs,                       \* NonBlockingMPIMultiStepHandler::performComputation
    gen,                      \* CubicGridGenerator::readPhaseSpace on every rank
    th,                       \* two threads calling preprocessCell and postprocessCell
    mir,                      \* the Mirror plug-in: readXML and beforeForces
    ctor,                     \* the Simulation constructor: command line and ranks
    fc,                       \* LJFlopCounter: its counts for a cell or a cell pair
    tab                       \* the constructor of the processor on a component list

vars == <<vecType, cells, soas, _particleCellDataVector, _upot6lj, _upotXpoles,
          _virial, _myRF, lastOp, nCalls, budget, dl, lb, rk, _domain, nc, sim, hs, gen,
          th, mir, ctor, fc, tab>>

\* The variables of the threads, the plug-in, the constructors and the counter.
laterVars == <<th, mir, ctor, fc, tab>>

\* The variables of the code around the cell processor.
aroundVars == <<_domain, nc, sim, hs, gen, laterVars>>

\* The variables of the cell processor and of the cells it works on.
processorVars == <<cells, soas, _particleCellDataVector, _upot6lj, _upotXpoles,
                   _virial, _myRF, lastOp, nCalls, budget>>

(***************************************************************************)
(* Fixed-point arithmetic                                                  *)
(***************************************************************************)
One == 256

\* Division rounding towards zero, as symmetric as the doubles' rounding.
Quot(n, d) == IF n >= 0 THEN n \div d ELSE -((-n) \div d)

\* Product of two scaled values.
Mul(a, b) == Quot(a * b, One)

\* The bit pattern of +Inf: the unmasked reciprocal of a zero distance.
InfBits == One * One

\* one / x for a plain x (part_001:369 and the like).
Recip(x) == IF x = 0 THEN InfBits ELSE One \div x

\* The largest r + k with k < 2 * b whose square is at most n, found bit by bit.
RECURSIVE SqrtBits(_, _, _)
SqrtBits(n, r, b) ==
    IF b = 0 THEN r
    ELSE IF (r + b) * (r + b) <= n THEN SqrtBits(n, r + b, b \div 2)
         ELSE SqrtBits(n, r, b \div 2)

\* vcp_simd_sqrt of a scaled value: the scaled square root, rounded down.
vcp_simd_sqrt(x) == SqrtBits(x * One, 0, 16384)

\* vcp_simd_applymask: bitwise and with an all-ones or all-zero lane.
vcp_simd_applymask(x, forceMask) == IF forceMask THEN x ELSE 0

\* vcp_simd_scalProd(a1, a2, a3, b1, b2, b3) on triples.
vcp_simd_scalProd(a, b) == a[1] * b[1] + a[2] * b[2] + a[3] * b[3]

Sub3(a, b) == <<a[1] - b[1], a[2] - b[2], a[3] - b[3]>>
Add3(a, b) == <<a[1] + b[1], a[2] + b[2], a[3] + b[3]>>
Neg3(a) == <<-a[1], -a[2], -a[3]>>
Scale3(k, a) == <<k * a[1], k * a[2], k * a[3]>>
Zero3 == <<0, 0, 0>>

\* a x b, component by component as the routines write it out with vcp_simd_fms.
Cross(a, b) == <<a[2] * b[3] - a[3] * b[2], a[3] * b[1] - a[1] * b[3], a[1] * b[2] - a[2] * b[1]>>

\* What a pair routine hands back for one lane: the force, the torques on the
\* first and second site, and what it adds to the four running sums.
LaneOut(f, M1, M2, upot6lj, upotXpoles, virial, myRF) ==
    [f |-> f, M1 |-> M1, M2 |-> M2, upot6lj |-> upot6lj, upotXpoles |-> upotXpoles,
     virial |-> virial, myRF |-> myRF]

(***************************************************************************)
(* The pair routines, one lane each                                        *)
(***************************************************************************)
_loopBodyLJ_unmaskedUpot(calculateMacroscopic, m1_r, r1, m2_r, r2, forceMask, eps_24, sig2, shift6) ==
    LET c_d == Sub3(r1, r2)
        c_r2 == vcp_simd_scalProd(c_d, c_d)
        r2_inv == vcp_simd_applymask(Recip(c_r2), forceMask)
        lj2 == sig2 * r2_inv
        lj4 == Mul(lj2, lj2)
        lj6 == Mul(lj4, lj2)
        lj12 == Mul(lj6, lj6)
        lj12m6 == lj12 - lj6
        scale == Mul(eps_24 * r2_inv, lj12 + lj12m6)
        f == Scale3(scale, c_d)
        m_d == Sub3(m1_r, m2_r)
        upot_sh == eps_24 * lj12m6 + shift6
    IN  LaneOut(f, Zero3, Zero3,
                IF calculateMacroscopic THEN upot_sh ELSE 0, 0,
                IF calculateMacroscopic THEN vcp_simd_scalProd(m_d, f) ELSE 0, 0)

_loopBodyLJ(calculateMacroscopic, m1_r, r1, m2_r, r2, forceMask, eps_24, sig2, shift6) ==
    LET c_d == Sub3(r1, r2)
        c_r2 == vcp_simd_scalProd(c_d, c_d)
        r2_inv_unmasked == Recip(c_r2)
        r2_inv == vcp_simd_applymask(r2_inv_unmasked, forceMask)
        lj2 == sig2 * r2_inv
        lj4 == Mul(lj2, lj2)
        lj6 == Mul(lj4, lj2)
        lj12 == Mul(lj6, lj6)
        lj12m6 == lj12 - lj6
        eps24r2inv == eps_24 * r2_inv
        lj12lj12m6 == lj12 + lj12m6
        scale == Mul(eps24r2inv, lj12lj12m6)
        f == Scale3(scale, c_d)
        m_d == Sub3(m1_r, m2_r)
        \* shift6 is not masked, so the shifted potential is
        upot_sh == eps_24 * lj12m6 + shift6
        upot_masked == vcp_simd_applymask(upot_sh, forceMask)
        virial == vcp_simd_scalProd(m_d, f)
    IN  LaneOut(f, Zero3, Zero3,
                IF calculateMacroscopic THEN upot_masked ELSE 0, 0,
                IF calculateMacroscopic THEN virial ELSE 0, 0)

_loopBodyCharge(calculateMacroscopic, m1_r, r1, qii, m2_r, r2, qjj, forceMask) ==
    LET c_d == Sub3(r1, r2)
        c_dr2 == vcp_simd_scalProd(c_d, c_d)
        c_dr2_inv == vcp_simd_applymask(Recip(c_dr2), forceMask)
        c_dr_inv == vcp_simd_sqrt(c_dr2_inv)
        q1q2per4pie0 == qii * qjj
        upot == q1q2per4pie0 * c_dr_inv
        fac == Mul(upot, c_dr2_inv)
        f == Scale3(fac, c_d)
        m_d == Sub3(m1_r, m2_r)
        virial == vcp_simd_scalProd(m_d, f)
    IN  LaneOut(f, Zero3, Zero3, 0,
                IF calculateMacroscopic THEN upot ELSE 0,
                IF calculateMacroscopic THEN virial ELSE 0, 0)

\* The charge is the first site, the dipole the second; M is the torque on the
\* dipole.  The parameter switched is not read by the routine.
_loopBodyChargeDipole(calculateMacroscopic, m1_r, r1, q, m2_r, r2, e, p, forceMask, switched) ==
    LET d == Sub3(r1, r2)
        dr2 == vcp_simd_scalProd(d, d)
        dr2_inv == vcp_simd_applymask(Recip(dr2), forceMask)
        dr_inv == vcp_simd_sqrt(dr2_inv)
        dr3_inv == Mul(dr2_inv, dr_inv)
        re == vcp_simd_scalProd(d, e)
        qpper4pie0 == q * p
        qpper4pie0dr3 == qpper4pie0 * dr3_inv
        fac == dr2_inv * 3 * re
        \* vcp_simd_fnma(dx, fac, e_x) = e_x - dx * fac
        f == <<Mul(qpper4pie0dr3, e[1] * One - d[1] * fac),
               Mul(qpper4pie0dr3, e[2] * One - d[2] * fac),
               Mul(qpper4pie0dr3, e[3] * One - d[3] * fac)>>
        m_d == Sub3(m1_r, m2_r)
        minusUpot == qpper4pie0dr3 * re
        virial == vcp_simd_scalProd(m_d, f)
        \* (e_y dz - e_z dy, e_z dx - e_x dz, e_x dy - e_y dx)
        M == Scale3(qpper4pie0dr3, Cross(e, d))
    IN  LaneOut(f, Zero3, M, 0,
                IF calculateMacroscopic THEN -minusUpot ELSE 0,
                IF calculateMacroscopic THEN virial ELSE 0, 0)

_loopBodyDipole(calculateMacroscopic, m1_r, r1, eii, pii, m2_r, r2, ejj, pjj, forceMask, epsRFInvrc3) ==
    LET d == Sub3(r1, r2)
        dr2 == vcp_simd_scalProd(d, d)
        dr2_inv == vcp_simd_applymask(Recip(dr2), forceMask)
        dr_inv == vcp_simd_sqrt(dr2_inv)
        dr2three_inv == 3 * dr2_inv
        p1p2 == vcp_simd_applymask(pii * pjj, forceMask)
        p1p2per4pie0 == p1p2
        rffac == p1p2 * epsRFInvrc3
        p1p2per4pie0r3 == Mul(p1p2per4pie0 * dr_inv, dr2_inv)
        p1p2threeper4pie0r5 == Mul(p1p2per4pie0r3, dr2three_inv)
        e1e2 == vcp_simd_scalProd(eii, ejj)
        re1 == vcp_simd_scalProd(d, eii)
        re2 == vcp_simd_scalProd(d, ejj)
        re1threeperr2 == re1 * dr2three_inv
        re2threeperr2 == re2 * dr2three_inv
        re1re2perr2 == dr2_inv * re1 * re2
        e1e2minus5re1re2perr2 == e1e2 * One - 5 * re1re2perr2
        \* vcp_simd_scalProd(dx, eii_x, ejj_x, e1e2minus5re1re2perr2, re2, re1)
        f == <<Mul(p1p2threeper4pie0r5, d[1] * e1e2minus5re1re2perr2 + (eii[1] * re2 + ejj[1] * re1) * One),
               Mul(p1p2threeper4pie0r5, d[2] * e1e2minus5re1re2perr2 + (eii[2] * re2 + ejj[2] * re1) * One),
               Mul(p1p2threeper4pie0r5, d[3] * e1e2minus5re1re2perr2 + (eii[3] * re2 + ejj[3] * re1) * One)>>
        m_d == Sub3(m1_r, m2_r)
        upot == Mul(p1p2per4pie0r3, e1e2 * One - 3 * re1re2perr2)
        virial == vcp_simd_scalProd(m_d, f)
        e1Xe2 == Cross(eii, ejj)
        eiiXd == Cross(eii, d)
        ejjXd == Cross(ejj, d)
        M1 == <<Mul(p1p2per4pie0r3, re2threeperr2 * eiiXd[1] - e1Xe2[1] * One) + rffac * e1Xe2[1],
                Mul(p1p2per4pie0r3, re2threeperr2 * eiiXd[2] - e1Xe2[2] * One) + rffac * e1Xe2[2],
                Mul(p1p2per4pie0r3, re2threeperr2 * eiiXd[3] - e1Xe2[3] * One) + rffac * e1Xe2[3]>>
        M2 == <<Mul(p1p2per4pie0r3, re1threeperr2 * ejjXd[1] + e1Xe2[1] * One) - rffac * e1Xe2[1],
                Mul(p1p2per4pie0r3, re1threeperr2 * ejjXd[2] + e1Xe2[2] * One) - rffac * e1Xe2[2],
                Mul(p1p2per4pie0r3, re1threeperr2 * ejjXd[3] + e1Xe2[3] * One) - rffac * e1Xe2[3]>>
    IN  LaneOut(f, M1, M2, 0,
                IF calculateMacroscopic THEN upot ELSE 0,
                IF calculateMacroscopic THEN virial ELSE 0,
                IF calculateMacroscopic THEN rffac * e1e2 ELSE 0)

\* The charge is the first site, the quadrupole the second; M is the torque on
\* the quadrupole.  The parameter switched is not read by the routine.
_loopBodyChargeQuadrupole(calculateMacroscopic, m1_r, r1, q, m2_r, r2, ejj, m, forceMask, switched) ==
    LET c_d == Sub3(r1, r2)
        c_dr2 == vcp_simd_scalProd(c_d, c_d)
        invdr2 == vcp_simd_applymask(Recip(c_dr2), forceMask)
        invdr == vcp_simd_sqrt(invdr2)
        qQ05per4pie0 == (One \div 2) * q * m
        costj == vcp_simd_scalProd(ejj, c_d) * invdr
        qQinv4dr3 == Mul(Mul(qQ05per4pie0, invdr), invdr2)
        part1 == 3 * Mul(costj, costj)
        upot == Mul(qQinv4dr3, part1 - One)
        minus_partialRijInvdr == Mul(3 * upot, invdr2)
        partialTjInvdr == Mul(Mul(6 * costj, qQinv4dr3), invdr)
        fac == Mul(Mul(costj, partialTjInvdr), invdr) + minus_partialRijInvdr
        \* vcp_simd_fms(fac, c_dx, partialTjInvdr * ejj_x)
        f == Sub3(Scale3(fac, c_d), Scale3(partialTjInvdr, ejj))
        m_d == Sub3(m1_r, m2_r)
        virial == vcp_simd_scalProd(m_d, f)
        \* (ejj_z c_dy - ejj_y c_dz, ejj_x c_dz - ejj_z c_dx, ejj_y c_dx - ejj_x c_dy)
        minuseXrij == Cross(c_d, ejj)
        M == Scale3(partialTjInvdr, minuseXrij)
    IN  LaneOut(f, Zero3, M, 0,
                IF calculateMacroscopic THEN upot ELSE 0,
                IF calculateMacroscopic THEN virial ELSE 0, 0)

\* The dipole is the first site, the quadrupole the second.
_loopBodyDipoleQuadrupole(calculateMacroscopic, m1_r, r1, eii, p, m2_r, r2, ejj, m, forceMask, switched) ==
    LET c_d == Sub3(r1, r2)
        c_dr2 == vcp_simd_scalProd(c_d, c_d)
        invdr2 == vcp_simd_applymask(Recip(c_dr2), forceMask)
        invdr == vcp_simd_sqrt(invdr2)
        myqfac == Mul(Mul(((3 * One) \div 2) * p * m, invdr2), invdr2)
        costi == vcp_simd_scalProd(eii, c_d) * invdr
        costj == vcp_simd_scalProd(ejj, c_d) * invdr
        cos2tj == Mul(costj, costj)
        cosgij == vcp_simd_scalProd(eii, ejj)
        _5cos2tjminus1 == 5 * cos2tj - One
        _2costj == 2 * costj
        part1 == Mul(costi, _5cos2tjminus1)
        part2 == _2costj * cosgij
        upot == Mul(myqfac, part2 - part1)
        myqfacXinvdr == Mul(myqfac, invdr)
        minus_partialRijInvdr == Mul(4 * upot, invdr2)
        minus_partialTiInvdr == Mul(myqfacXinvdr, _5cos2tjminus1)
        part1b == 5 * Mul(costi, costj) - cosgij * One
        minus_partialTjInvdr == Mul(myqfacXinvdr * 2, part1b)
        partialGij == Mul(myqfac, _2costj)
        part3 == Mul(costi, minus_partialTiInvdr) + Mul(costj, minus_partialTjInvdr)
        fac == minus_partialRijInvdr - Mul(part3, invdr)
        \* vcp_simd_scalProd(fac, minus_partialTiInvdr, minus_partialTjInvdr, c_dx, eii_x, ejj_x)
        f == Add3(Scale3(fac, c_d), Add3(Scale3(minus_partialTiInvdr, eii), Scale3(minus_partialTjInvdr, ejj)))
        m_d == Sub3(m1_r, m2_r)
        virial == vcp_simd_scalProd(m_d, f)
        partialGij_eiXej == Scale3(partialGij, Cross(eii, ejj))
        M1 == Sub3(Scale3(minus_partialTiInvdr, Cross(eii, c_d)), partialGij_eiXej)
        M2 == Add3(Scale3(minus_partialTjInvdr, Cross(ejj, c_d)), partialGij_eiXej)
    IN  LaneOut(f, M1, M2, 0,
                IF calculateMacroscopic THEN upot ELSE 0,
                IF calculateMacroscopic THEN virial ELSE 0, 0)

_loopBodyQuadrupole(calculateMacroscopic, m1_r, r1, eii, mii, m2_r, r2, ejj, mjj, forceMask) ==
    LET c_d == Sub3(r1, r2)
        c_dr2 == vcp_simd_scalProd(c_d, c_d)
        invdr2 == vcp_simd_applymask(Recip(c_dr2), forceMask)
        invdr == vcp_simd_sqrt(invdr2)
        qfac == Mul(Mul((3 * One) \div 4, invdr) * (mii * mjj), Mul(invdr2, invdr2))
        costi == vcp_simd_scalProd(eii, c_d) * invdr
        costj == vcp_simd_scalProd(ejj, c_d) * invdr
        cos2ti == Mul(costi, costi)
        cos2tj == Mul(costj, costj)
        cosgij == vcp_simd_scalProd(eii, ejj)
        term == cosgij * One - 5 * Mul(costi, costj)
        upot == Mul(qfac, (One + 2 * Mul(term, term)) - (5 * (cos2ti + cos2tj) + 15 * Mul(cos2ti, cos2tj)))
        minus_partialRijInvdr == Mul(5 * upot, invdr2)
        part1 == Mul(qfac * 10, invdr)
        part2 == 2 * term
        minus_partialTiInvdr == Mul(part1, costi + (Mul(part2, costj) + 3 * Mul(costi, cos2tj)))
        minus_partialTjInvdr == Mul(part1, costj + (Mul(part2, costi) + 3 * Mul(costj, cos2ti)))
        partialGij == Mul(qfac * 4, term)
        fac == minus_partialRijInvdr
               - Mul(Mul(minus_partialTiInvdr, costi) + Mul(minus_partialTjInvdr, costj), invdr)
        f == Add3(Scale3(fac, c_d), Add3(Scale3(minus_partialTiInvdr, eii), Scale3(minus_partialTjInvdr, ejj)))
        m_d == Sub3(m1_r, m2_r)
        virial == vcp_simd_scalProd(m_d, f)
        partialGij_eiXej == Scale3(partialGij, Cross(eii, ejj))
        Mii == Sub3(Scale3(minus_partialTiInvdr, Cross(eii, c_d)), partialGij_eiXej)
        Mjj == Add3(Scale3(minus_partialTjInvdr, Cross(ejj, c_d)), partialGij_eiXej)
    IN  LaneOut(f, Mii, Mjj, 0,
                IF calculateMacroscopic THEN upot ELSE 0,
                IF calculateMacroscopic THEN virial ELSE 0, 0)

(***************************************************************************)
(* The ensemble's components and the constructor's parameter tables        *)
(***************************************************************************)
\* Bound on the number of calls of the processor in one behaviour.
MaxCalls == 5

\* Capacity of every array of a CellDataSoA.
SoACapacity == 8

\* Constructor arguments and domain.getepsilonRF().
cutoffRadius == 3
LJcutoffRadius == 2
epsilonRF == 4

_cutoffRadiusSquare == cutoffRadius * cutoffRadius
_LJCutoffRadiusSquare == LJcutoffRadius * LJcutoffRadius

\* 2 (epsRF - 1) / (rc^3 (2 epsRF + 1)), scaled.
_epsRFInvrc3 ==
    Quot(2 * (epsilonRF - 1) * One, (cutoffRadius * cutoffRadius * cutoffRadius) * (2 * epsilonRF + 1))

\* *(_simulation.getEnsemble()->components()): body-frame sites of each component.
components ==
    << [ID |-> 0, numTersoff |-> 0,
        ljcenter |-> << <<0, 0, 0>>, <<0, 0, 1>> >>,
        charge |-> << >>, dipole |-> << >>, quadrupole |-> << >>],
       [ID |-> 1, numTersoff |-> 0,
        ljcenter |-> << >>,
        charge |-> << [d |-> <<0, 0, 0>>, q |-> 1], [d |-> <<0, 0, 1>>, q |-> -1] >>,
        dipole |-> << [d |-> <<0, 0, 0>>, absMy |-> 1] >>,
        quadrupole |-> << >>],
       [ID |-> 2, numTersoff |-> 0,
        ljcenter |-> << <<0, 0, 0>> >>,
        charge |-> << [d |-> <<0, 0, 1>>, q |-> -1] >>,
        dipole |-> << >>,
        quadrupole |-> << [d |-> <<0, 0, 0>>, absQ |-> 1] >>] >>

numLJcenters(c) == Len(c.ljcenter)

RECURSIVE maxID(_, _)
maxID(comps, n) == IF n = 0 THEN 0
                   ELSE IF comps[n].ID > maxID(comps, n - 1) THEN comps[n].ID ELSE maxID(comps, n - 1)

\* centers after the first n components of the list.
RECURSIVE centersAfter(_, _)
centersAfter(comps, n) == IF n = 0 THEN 0 ELSE centersAfter(comps, n - 1) + numLJcenters(comps[n])

\* A table with each of its entries computed once and stored.
Stored(a) == a @@ << >>

\* _compIDs.resize(maxID + 1, 0); _compIDs[c->ID()] = centers, in list order.
compIDsOf(comps) ==
    Stored([id \in 0..maxID(comps, Len(comps)) |->
               LET ps == {n \in 1..Len(comps) : comps[n].ID = id}
               IN  IF ps = {} THEN 0
                   ELSE centersAfter(comps, (CHOOSE n \in ps : \A k \in ps : k <= n) - 1)])

_compIDs == compIDsOf(components)

centers == centersAfter(components, Len(components))

\* What the ParaStrm of _domain.getComp2Params()(ID_i, ID_j) yields for the
\* centre pair (center_i, center_j): epsilon*24, sigma^2 and shift*6.
ParaStrm(idi, idj, center_i, center_j) ==
    [eps24 |-> IF idi = idj THEN 24 ELSE 48, sig2 |-> 1, shift6 |-> 3 + center_i + center_j]

\* The writes of the constructor's four nested loops, in loop order; the
\* table entry is what the last write to it left, or the 0.0 of resize.
TableWrites(comps) ==
    {w \in [comp_i : 1..Len(comps), comp_j : 1..Len(comps),
            center_i : 0..centersAfter(comps, Len(comps)),
            center_j : 0..centersAfter(comps, Len(comps))] :
        /\ w.center_i < numLJcenters(comps[w.comp_i])
        /\ w.center_j < numLJcenters(comps[w.comp_j])}

WriteRow(ids, w) == ids[w.comp_i - 1] + w.center_i
WriteCol(ids, w) == ids[w.comp_j - 1] + w.center_j
WriteOrder(comps, w) ==
    ((w.comp_i * (Len(comps) + 1) + w.comp_j) * (centersAfter(comps, Len(comps)) + 1) + w.center_i)
        * (centersAfter(comps, Len(comps)) + 1) + w.center_j

TableEntry(comps, ids, row, col) ==
    LET ws == {w \in TableWrites(comps) : WriteRow(ids, w) = row /\ WriteCol(ids, w) = col}
    IN  IF ws = {} THEN [eps24 |-> 0, sig2 |-> 0, shift6 |-> 0]
        ELSE LET w == CHOOSE x \in ws : \A y \in ws : WriteOrder(comps, y) <= WriteOrder(comps, x)
                 ci == comps[w.comp_i]
                 cj == comps[w.comp_j]
             IN  IF ci.ID = cj.ID /\ (ci.numTersoff > 0 \/ cj.numTersoff > 0)
                 THEN [eps24 |-> 0, sig2 |-> 0, shift6 |-> 0]
                 ELSE ParaStrm(ci.ID, cj.ID, w.center_i, w.center_j)

\* _eps_sig after the constructor ran on a component list.
epsSigOf(comps) ==
    Stored([row \in 0..(centersAfter(comps, Len(comps)) - 1) |->
               Stored([col \in 0..(centersAfter(comps, Len(comps)) - 1) |->
                          TableEntry(comps, compIDsOf(comps), row, col)])])

_eps_sig == epsSigOf(components)

\* _shift6[row][col]
_shift6 ==
    Stored([row \in 0..(centers - 1) |->
               Stored([col \in 0..(centers - 1) |-> _eps_sig[row][col].shift6])])

(***************************************************************************)
(* One lane of a pair routine on two sites                                 *)
(***************************************************************************)
\* A site as the loops of _calculatePairs load it: the molecule's position,
\* the site's position, its orientation, its charge or moment, its LJ id.
Site(m_r, r, e, mag, id) == [m_r |-> m_r, r |-> r, e |-> e, mag |-> mag, id |-> id]

Bodies == {"LJ", "Charge", "ChargeDipole", "Dipole", "ChargeQuadrupole",
           "DipoleQuadrupole", "Quadrupole"}

\* The call of the routine named body with a as its first and b as its second
\* site, as the ten loops write it.
LoopBody(body, calculateMacroscopic, a, b, forceMask) ==
    CASE body = "LJ" ->
            _loopBodyLJ(calculateMacroscopic, a.m_r, a.r, b.m_r, b.r, forceMask,
                        _eps_sig[a.id][b.id].eps24, _eps_sig[a.id][b.id].sig2, _shift6[a.id][b.id])
      [] body = "Charge" ->
            _loopBodyCharge(calculateMacroscopic, a.m_r, a.r, a.mag, b.m_r, b.r, b.mag, forceMask)
      [] body = "ChargeDipole" ->
            _loopBodyChargeDipole(calculateMacroscopic, a.m_r, a.r, a.mag, b.m_r, b.r, b.e, b.mag,
                                  forceMask, TRUE)
      [] body = "Dipole" ->
            _loopBodyDipole(calculateMacroscopic, a.m_r, a.r, a.e, a.mag, b.m_r, b.r, b.e, b.mag,
                            forceMask, _epsRFInvrc3)
      [] body = "ChargeQuadrupole" ->
            _loopBodyChargeQuadrupole(calculateMacroscopic, a.m_r, a.r, a.mag, b.m_r, b.r, b.e, b.mag,
                                      forceMask, TRUE)
      [] body = "DipoleQuadrupole" ->
            _loopBodyDipoleQuadrupole(calculateMacroscopic, a.m_r, a.r, a.e, a.mag, b.m_r, b.r, b.e,
                                      b.mag, forceMask, TRUE)
      [] body = "Quadrupole" ->
            _loopBodyQuadrupole(calculateMacroscopic, a.m_r, a.r, a.e, a.mag, b.m_r, b.r, b.e, b.mag,
                                forceMask)

(***************************************************************************)
(* SIMD width, the force policies and calcDistLookup                       *)
(***************************************************************************)
\* VCP_VEC_SIZE of the build.
VCP_VEC_SIZE == CASE vecType = "NOVEC" -> 1 [] vecType = "SSE3" -> 2 [] vecType = "AVX" -> 4

vcp_floor_to_vec_size(n) == n - (n % VCP_VEC_SIZE)
vcp_ceil_to_vec_size(n) == ((n + VCP_VEC_SIZE - 1) \div VCP_VEC_SIZE) * VCP_VEC_SIZE

Policies == {"SingleCellPolicy_", "CellPairPolicy_"}

\* ForcePolicy::InitJ: the first target index of the loops.  The loops load
\* whole vectors from it with aligned loads, so it is a multiple of the
\* width: i + 1 rounded down, which is i + 1 without intrinsics, j >= i with
\* SSE3 and possibly j < i with AVX (part_001:1002-1003).
InitJ(ForcePolicy, i) ==
    IF ForcePolicy = "SingleCellPolicy_" THEN vcp_floor_to_vec_size(i + 1) ELSE 0

\* ForcePolicy::Condition: within the cutoff; inside one cell a molecule
\* does not interact with itself ("j==i is handled by ForcePolicy::Condition").
Condition(ForcePolicy, m_r2, rc2) ==
    IF ForcePolicy = "SingleCellPolicy_" THEN m_r2 < rc2 /\ m_r2 # 0 ELSE m_r2 < rc2

DetectSingleCell(ForcePolicy) == ForcePolicy = "SingleCellPolicy_"

\* Lane j of ForcePolicy::InitJ_Mask(i): clear for the lanes up to i.
InitJ_Mask(ForcePolicy, i, j) == DetectSingleCell(ForcePolicy) => j > i

\* Lane j of ForcePolicy::GetForceMask, with the index mask (AVX) or
\* without it (SSE3).
GetForceMask(ForcePolicy, m_r2, rc2, initJ_mask) == Condition(ForcePolicy, m_r2, rc2) /\ initJ_mask

SoAIndex == 0..(SoACapacity - 1)

\* An array of a slab: one stored entry per index.
Array(a) == Stored(a)

\* A list of n stored entries.
List(a, n) == Stored(a)

\* One stored entry per kind of site.
PerKind(a) ==
    [ljc |-> a["ljc"], charges |-> a["charges"], dipoles |-> a["dipoles"],
     quadrupoles |-> a["quadrupoles"]]

\* m_r2 of the molecule at m1_r and the owner of target site j.
Dist2(m1_r, m_r, j) == vcp_simd_scalProd(Sub3(m1_r, m_r[j]), Sub3(m1_r, m_r[j]))

Max(a, b) == IF a > b THEN a ELSE b

\* calcDistLookup without the memset of the tail.
calcDistLookup_noMemset(ForcePolicy, m1_r, i_center_idx, soa2_num_centers, cutoffRadiusSquare, dist_lookup, m_r) ==
    LET \* size_t j = ForcePolicy::InitJ(i_center_idx)
        j0 == InitJ(ForcePolicy, i_center_idx)
        end_j == vcp_floor_to_vec_size(soa2_num_centers)
        \* j after the vector loop "for (; j < end_j; j += VCP_VEC_SIZE)"
        jv == IF vecType = "NOVEC" THEN j0 ELSE Max(j0, end_j)
        \* j after the scalar loop "for (; j < soa2_num_centers; ++j)"
        js == Max(jv, soa2_num_centers)
        m_r2(j) == Dist2(m1_r, m_r, j)
        vector(j) ==
            IF vecType = "AVX"
            THEN GetForceMask(ForcePolicy, m_r2(j), cutoffRadiusSquare,
                              InitJ_Mask(ForcePolicy, i_center_idx, j))
            ELSE GetForceMask(ForcePolicy, m_r2(j), cutoffRadiusSquare, TRUE)
        scalar(j) ==
            IF vecType = "AVX" /\ DetectSingleCell(ForcePolicy)
            THEN Condition(ForcePolicy, m_r2(j), cutoffRadiusSquare) /\ j > i_center_idx
            ELSE Condition(ForcePolicy, m_r2(j), cutoffRadiusSquare)
        \* memset(lookup + j, 0, ((VCP_VEC_SIZE - (num - end_j)) % VCP_VEC_SIZE) * sizeof(double))
        tail == (VCP_VEC_SIZE - (soa2_num_centers - end_j)) % VCP_VEC_SIZE
        new(j) == IF vecType # "NOVEC" /\ j >= j0 /\ j < end_j THEN vector(j)
                  ELSE IF j >= jv /\ j < soa2_num_centers THEN scalar(j)
                  ELSE dist_lookup[j]
    IN  [dist_lookup |-> Array([j \in SoAIndex |-> new(j)]),
         compute_molecule |-> \E j \in SoAIndex : j >= j0 /\ j < soa2_num_centers /\ new(j)]

\* calcDistLookup whose scalar remainder loop of the AVX build tests the
\* distance only.
calcDistLookup_noIndexTest(ForcePolicy, m1_r, i_center_idx, soa2_num_centers, cutoffRadiusSquare, dist_lookup, m_r) ==
    LET \* size_t j = ForcePolicy::InitJ(i_center_idx)
        j0 == InitJ(ForcePolicy, i_center_idx)
        end_j == vcp_floor_to_vec_size(soa2_num_centers)
        \* j after the vector loop "for (; j < end_j; j += VCP_VEC_SIZE)"
        jv == IF vecType = "NOVEC" THEN j0 ELSE Max(j0, end_j)
        \* j after the scalar loop "for (; j < soa2_num_centers; ++j)"
        js == Max(jv, soa2_num_centers)
        m_r2(j) == Dist2(m1_r, m_r, j)
        vector(j) ==
            IF vecType = "AVX"
            THEN GetForceMask(ForcePolicy, m_r2(j), cutoffRadiusSquare,
                              InitJ_Mask(ForcePolicy, i_center_idx, j))
            ELSE GetForceMask(ForcePolicy, m_r2(j), cutoffRadiusSquare, TRUE)
        scalar(j) ==
            IF vecType = "AVX" /\ DetectSingleCell(ForcePolicy)
            THEN Condition(ForcePolicy, m_r2(j), cutoffRadiusSquare)
            ELSE Condition(ForcePolicy, m_r2(j), cutoffRadiusSquare)
        \* memset(lookup + j, 0, ((VCP_VEC_SIZE - (num - end_j)) % VCP_VEC_SIZE) * sizeof(double))
        tail == (VCP_VEC_SIZE - (soa2_num_centers - end_j)) % VCP_VEC_SIZE
        new(j) == IF vecType # "NOVEC" /\ j >= j0 /\ j < end_j THEN vector(j)
                  ELSE IF j >= jv /\ j < soa2_num_centers THEN scalar(j)
                  ELSE IF vecType # "NOVEC" /\ j >= js /\ j < js + tail THEN FALSE
                  ELSE dist_lookup[j]
    IN  [dist_lookup |-> Array([j \in SoAIndex |-> new(j)]),
         compute_molecule |-> \E j \in SoAIndex : j >= j0 /\ j < soa2_num_centers /\ new(j)]

\* calcDistLookup<ForcePolicy>(soa1, i, i_center_idx, soa2_num_centers,
\* cutoffRadiusSquare, soa2_center_dist_lookup, soa2_m_r, ...): the new
\* lookup array and the returned compute_molecule.  m1_r is soa1._mol_pos[i].
calcDistLookup(ForcePolicy, m1_r, i_center_idx, soa2_num_centers, cutoffRadiusSquare, dist_lookup, m_r) ==
    LET \* size_t j = ForcePolicy::InitJ(i_center_idx)
        j0 == InitJ(ForcePolicy, i_center_idx)
        end_j == vcp_floor_to_vec_size(soa2_num_centers)
        \* j after the vector loop "for (; j < end_j; j += VCP_VEC_SIZE)"
        jv == IF vecType = "NOVEC" THEN j0 ELSE Max(j0, end_j)
        \* j after the scalar loop "for (; j < soa2_num_centers; ++j)"
        js == Max(jv, soa2_num_centers)
        m_r2(j) == Dist2(m1_r, m_r, j)
        vector(j) ==
            IF vecType = "AVX"
            THEN GetForceMask(ForcePolicy, m_r2(j), cutoffRadiusSquare,
                              InitJ_Mask(ForcePolicy, i_center_idx, j))
            ELSE GetForceMask(ForcePolicy, m_r2(j), cutoffRadiusSquare, TRUE)
        scalar(j) ==
            IF vecType = "AVX" /\ DetectSingleCell(ForcePolicy)
            THEN Condition(ForcePolicy, m_r2(j), cutoffRadiusSquare) /\ j > i_center_idx
            ELSE Condition(ForcePolicy, m_r2(j), cutoffRadiusSquare)
        \* memset(lookup + j, 0, ((VCP_VEC_SIZE - (num - end_j)) % VCP_VEC_SIZE) * sizeof(double))
        tail == (VCP_VEC_SIZE - (soa2_num_centers - end_j)) % VCP_VEC_SIZE
        new(j) == IF vecType # "NOVEC" /\ j >= j0 /\ j < end_j THEN vector(j)
                  ELSE IF j >= jv /\ j < soa2_num_centers THEN scalar(j)
                  ELSE IF vecType # "NOVEC" /\ j >= js /\ j < js + tail THEN FALSE
                  ELSE dist_lookup[j]
    IN  [dist_lookup |-> Array([j \in SoAIndex |-> new(j)]),
         compute_molecule |-> \E j \in SoAIndex : j >= j0 /\ j < soa2_num_centers /\ new(j)]

(***************************************************************************)
(* Molecules, cells and the CellDataSoA                                    *)
(***************************************************************************)
Kinds == <<"ljc", "charges", "dipoles", "quadrupoles">>
KindSet == {"ljc", "charges", "dipoles", "quadrupoles"}

RECURSIVE Zeros3(_)
Zeros3(n) == IF n = 0 THEN << >> ELSE Append(Zeros3(n - 1), Zero3)

\* The sites of one kind of a molecule: offset d from the centre, charge or
\* moment, orientation; components[molecules[i]->componentid()].
MolSites(mol, kind) ==
    LET c == components[mol.componentid + 1]
    IN  CASE kind = "ljc" ->
                [j \in 1..Len(c.ljcenter) |-> [d |-> c.ljcenter[j], mag |-> 0, e |-> Zero3]]
          [] kind = "charges" ->
                [j \in 1..Len(c.charge) |-> [d |-> c.charge[j].d, mag |-> c.charge[j].q, e |-> Zero3]]
          [] kind = "dipoles" ->
                [j \in 1..Len(c.dipole) |-> [d |-> c.dipole[j].d, mag |-> c.dipole[j].absMy, e |-> mol.e]]
          [] kind = "quadrupoles" ->
                [j \in 1..Len(c.quadrupole) |->
                    [d |-> c.quadrupole[j].d, mag |-> c.quadrupole[j].absQ, e |-> mol.e]]

\* numLJcenters(), numCharges(), numDipoles(), numQuadrupoles() of a molecule.
NumSites(mol, kind) == Len(MolSites(mol, kind))

\* Largest number of sites of one kind on a molecule of the ensemble.
MaxSitesPerMol ==
    CHOOSE n \in 0..SoACapacity :
        /\ \A k \in 1..Len(components) : \A kind \in KindSet :
              NumSites([componentid |-> k - 1, e |-> Zero3], kind) <= n
        /\ \E k \in 1..Len(components) : \E kind \in KindSet :
              NumSites([componentid |-> k - 1, e |-> Zero3], kind) = n

\* A molecule with its force and torque accumulators at zero.
Molecule(componentid, r, e) ==
    LET m == [componentid |-> componentid, e |-> e]
    IN  [componentid |-> componentid, r |-> r, e |-> e,
         F |-> PerKind([kind \in KindSet |-> Zeros3(NumSites(m, kind))]), M |-> Zero3]

\* A molecule that carries force f on each of its sites and torque M
\* already, as left by whatever added to it earlier in the time step.
Carrying(mol, f, M) ==
    [mol EXCEPT !.F = PerKind([kind \in KindSet |->
                          List([i \in 1..NumSites(mol, kind) |-> f], NumSites(mol, kind))]),
                !.M = M]

\* The arrays of one kind of site of a CellDataSoA.
EmptyArrays ==
    [num |-> 0,
     m_r |-> Array([j \in SoAIndex |-> Zero3]), r |-> Array([j \in SoAIndex |-> Zero3]),
     f |-> Array([j \in SoAIndex |-> Zero3]), M |-> Array([j \in SoAIndex |-> Zero3]),
     e |-> Array([j \in SoAIndex |-> Zero3]), mag |-> Array([j \in SoAIndex |-> 0]),
     id |-> Array([j \in SoAIndex |-> 0]), dist_lookup |-> Array([j \in SoAIndex |-> FALSE])]

\* new CellDataSoA(64,64,64,64,64)
NewCellDataSoA ==
    [_mol_num |-> 0, _mol_pos |-> << >>,
     _mol_num_of |-> PerKind([kind \in KindSet |-> << >>]),
     arr |-> PerKind([kind \in KindSet |-> EmptyArrays])]

\* CellDataSoA::resize: the counts are set and each kind's arrays are padded
\* up to the SIMD width with zeros for positions, moments and site ids.
resize(soa, numMolecules, nums) ==
    [soa EXCEPT
        !._mol_num = numMolecules,
        !.arr = PerKind([kind \in KindSet |->
                    LET a == soa.arr[kind]
                        pad(j) == j >= nums[kind] /\ j < vcp_ceil_to_vec_size(nums[kind])
                    IN  [a EXCEPT !.num = nums[kind],
                                  !.m_r = Array([j \in SoAIndex |-> IF pad(j) THEN Zero3 ELSE a.m_r[j]]),
                                  !.r = Array([j \in SoAIndex |-> IF pad(j) THEN Zero3 ELSE a.r[j]]),
                                  !.mag = Array([j \in SoAIndex |-> IF pad(j) THEN 0 ELSE a.mag[j]]),
                                  !.id = Array([j \in SoAIndex |-> IF pad(j) THEN 0 ELSE a.id[j]])]])]

\* Number of sites of a kind over a list of molecules.
RECURSIVE CountSites(_, _)
CountSites(molecules, kind) ==
    IF molecules = << >> THEN 0
    ELSE NumSites(molecules[1], kind) + CountSites(Tail(molecules), kind)

\* The molecule (1-based) and the site of it (0-based) at running index idx of
\* a kind: iLJCenters, iCharges, iDipoles, iQuadrupoles.
RECURSIVE SiteAt(_, _, _)
SiteAt(molecules, kind, idx) ==
    IF idx < NumSites(molecules[1], kind) THEN [m |-> 1, j |-> idx]
    ELSE LET rest == SiteAt(Tail(molecules), kind, idx - NumSites(molecules[1], kind))
         IN  [m |-> rest.m + 1, j |-> rest.j]

\* The loop of preprocessCell over the molecules and their sites: what it
\* stores in the arrays of one kind.
FillArrays(a, molecules, kind) ==
    LET real(j) == j < CountSites(molecules, kind)
        at(j) == SiteAt(molecules, kind, j)
        mol(j) == molecules[at(j).m]
        site(j) == MolSites(mol(j), kind)[at(j).j + 1]
    IN  [a EXCEPT
            !.m_r = Array([j \in SoAIndex |-> IF real(j) THEN mol(j).r ELSE a.m_r[j]]),
            !.r = Array([j \in SoAIndex |-> IF real(j) THEN Add3(site(j).d, mol(j).r) ELSE a.r[j]]),
            !.f = Array([j \in SoAIndex |-> IF real(j) THEN Zero3 ELSE a.f[j]]),
            !.dist_lookup = Array([j \in SoAIndex |-> IF real(j) THEN FALSE ELSE a.dist_lookup[j]]),
            !.id = Array([j \in SoAIndex |->
                      IF real(j) /\ kind = "ljc" THEN _compIDs[mol(j).componentid] + at(j).j
                      ELSE a.id[j]]),
            !.mag = Array([j \in SoAIndex |-> IF real(j) /\ kind # "ljc" THEN site(j).mag ELSE a.mag[j]]),
            !.e = Array([j \in SoAIndex |->
                      IF real(j) /\ kind \in {"dipoles", "quadrupoles"} THEN site(j).e ELSE a.e[j]]),
            !.M = Array([j \in SoAIndex |->
                      IF real(j) /\ kind \in {"dipoles", "quadrupoles"} THEN Zero3 ELSE a.M[j]])]

\* FillArrays that leaves the force entries as the slab's last user left them.
preprocessSoA_staleForces(soa, molecules) ==
    LET nums == PerKind([kind \in KindSet |-> CountSites(molecules, kind)])
        sized == resize(soa, Len(molecules), nums)
    IN  [sized EXCEPT
            !._mol_pos = List([i \in 1..Len(molecules) |-> molecules[i].r], Len(molecules)),
            !._mol_num_of = PerKind([kind \in KindSet |->
                                List([i \in 1..Len(molecules) |-> NumSites(molecules[i], kind)], Len(molecules))]),
            !.arr = PerKind([kind \in KindSet |->
                        [FillArrays(sized.arr[kind], molecules, kind) EXCEPT !.f = sized.arr[kind].f]])]

\* What preprocessCell makes of the slab it takes for a cell's molecules.
preprocessSoA(soa, molecules) ==
    LET nums == PerKind([kind \in KindSet |-> CountSites(molecules, kind)])
        sized == resize(soa, Len(molecules), nums)
    IN  [sized EXCEPT
            !._mol_pos = List([i \in 1..Len(molecules) |-> molecules[i].r], Len(molecules)),
            !._mol_num_of = PerKind([kind \in KindSet |->
                                List([i \in 1..Len(molecules) |-> NumSites(molecules[i], kind)], Len(molecules))]),
            !.arr = PerKind([kind \in KindSet |-> FillArrays(sized.arr[kind], molecules, kind)])]

\* The loop of postprocessCell: molecule m with the forces and torques of its
\* sites added (Fljcenteradd, Fchargeadd, Fdipoleadd, Fquadrupoleadd, Madd).
RECURSIVE SumM(_, _, _)
SumM(a, first, n) == IF n = 0 THEN Zero3 ELSE Add3(a.M[first + n - 1], SumM(a, first, n - 1))

\* The loop body with the molecule's forces and torque set to what the slab
\* holds instead of added to.
postprocessMolecule_overwrites(soa, molecules, m) ==
    LET mol == molecules[m]
        first(kind) == CountSites(SubSeq(molecules, 1, m - 1), kind)
    IN  [mol EXCEPT
            !.F = PerKind([kind \in KindSet |->
                      List([i \in 1..NumSites(mol, kind) |->
                          soa.arr[kind].f[first(kind) + i - 1]], NumSites(mol, kind))]),
            !.M = Add3(SumM(soa.arr["dipoles"], first("dipoles"), NumSites(mol, "dipoles")),
                       SumM(soa.arr["quadrupoles"], first("quadrupoles"),
                            NumSites(mol, "quadrupoles")))]

postprocessMolecule(soa, molecules, m) ==
    LET mol == molecules[m]
        first(kind) == CountSites(SubSeq(molecules, 1, m - 1), kind)
    IN  [mol EXCEPT
            !.F = PerKind([kind \in KindSet |->
                      List([i \in 1..NumSites(mol, kind) |->
                          Add3(mol.F[kind][i], soa.arr[kind].f[first(kind) + i - 1])], NumSites(mol, kind))]),
            !.M = Add3(mol.M,
                       Add3(SumM(soa.arr["dipoles"], first("dipoles"), NumSites(mol, "dipoles")),
                            SumM(soa.arr["quadrupoles"], first("quadrupoles"),
                                 NumSites(mol, "quadrupoles"))))]

(***************************************************************************)
(* _calculatePairs                                                         *)
(***************************************************************************)
\* The ten loops over the sites of source molecule i.  src and tgt are the
\* kinds of the source and target sites, body the routine called, exchanged
\* whether the call passes the target site first, srcIdx the running index
\* of the source sites, initIdx the index InitJ is taken of (plus local_i
\* where perSite), srcSign and tgtSign how the force enters sum_f1 and the
\* target's accumulator.
LJLoop ==
    [src |-> "ljc", tgt |-> "ljc", body |-> "LJ", exchanged |-> FALSE,
     srcIdx |-> "i_ljc_idx", initIdx |-> "i_ljc_idx", perSite |-> TRUE,
     srcSign |-> 1, tgtSign |-> -1]

ChargeChargeLoop ==
    [src |-> "charges", tgt |-> "charges", body |-> "Charge", exchanged |-> FALSE,
     srcIdx |-> "i_charge_idx", initIdx |-> "i_charge_idx", perSite |-> TRUE,
     srcSign |-> 1, tgtSign |-> -1]

\* The dipole-charge loop adding the force to both sites with the same sign.
DipoleChargeLoop_sameSign ==
    [src |-> "dipoles", tgt |-> "charges", body |-> "ChargeDipole", exchanged |-> TRUE,
     srcIdx |-> "i_dipole_charge_idx", initIdx |-> "i_charge_idx", perSite |-> FALSE,
     srcSign |-> 1, tgtSign |-> 1]

DipoleChargeLoop ==
    [src |-> "dipoles", tgt |-> "charges", body |-> "ChargeDipole", exchanged |-> TRUE,
     srcIdx |-> "i_dipole_charge_idx", initIdx |-> "i_charge_idx", perSite |-> FALSE,
     srcSign |-> -1, tgtSign |-> 1]

QuadrupoleChargeLoop ==
    [src |-> "quadrupoles", tgt |-> "charges", body |-> "ChargeQuadrupole", exchanged |-> TRUE,
     srcIdx |-> "i_quadrupole_charge_idx", initIdx |-> "i_charge_idx", perSite |-> FALSE,
     srcSign |-> -1, tgtSign |-> 1]

DipoleDipoleLoop ==
    [src |-> "dipoles", tgt |-> "dipoles", body |-> "Dipole", exchanged |-> FALSE,
     srcIdx |-> "i_dipole_idx", initIdx |-> "i_dipole_idx", perSite |-> TRUE,
     srcSign |-> 1, tgtSign |-> -1]

ChargeDipoleLoop ==
    [src |-> "charges", tgt |-> "dipoles", body |-> "ChargeDipole", exchanged |-> FALSE,
     srcIdx |-> "i_charge_dipole_idx", initIdx |-> "i_dipole_idx", perSite |-> FALSE,
     srcSign |-> 1, tgtSign |-> -1]

QuadrupoleDipoleLoop ==
    [src |-> "quadrupoles", tgt |-> "dipoles", body |-> "DipoleQuadrupole", exchanged |-> TRUE,
     srcIdx |-> "i_quadrupole_dipole_idx", initIdx |-> "i_dipole_idx", perSite |-> FALSE,
     srcSign |-> -1, tgtSign |-> 1]

QuadrupoleQuadrupoleLoop ==
    [src |-> "quadrupoles", tgt |-> "quadrupoles", body |-> "Quadrupole", exchanged |-> FALSE,
     srcIdx |-> "i_quadrupole_idx", initIdx |-> "i_quadrupole_idx", perSite |-> TRUE,
     srcSign |-> 1, tgtSign |-> -1]

ChargeQuadrupoleLoop ==
    [src |-> "charges", tgt |-> "quadrupoles", body |-> "ChargeQuadrupole", exchanged |-> FALSE,
     srcIdx |-> "i_charge_quadrupole_idx", initIdx |-> "i_quadrupole_idx", perSite |-> FALSE,
     srcSign |-> 1, tgtSign |-> -1]

DipoleQuadrupoleLoop ==
    [src |-> "dipoles", tgt |-> "quadrupoles", body |-> "DipoleQuadrupole", exchanged |-> FALSE,
     srcIdx |-> "i_dipole_quadrupole_idx", initIdx |-> "i_quadrupole_idx", perSite |-> FALSE,
     srcSign |-> 1, tgtSign |-> -1]

\* The four blocks of the loop over the source molecules: the kind whose
\* lookup guards the block, its cutoff, its running index and its loops.
Blocks ==
    << [kind |-> "ljc", cutoffRadiusSquare |-> _LJCutoffRadiusSquare, idx |-> "i_ljc_idx",
        loops |-> <<LJLoop>>],
       [kind |-> "charges", cutoffRadiusSquare |-> _cutoffRadiusSquare, idx |-> "i_charge_idx",
        loops |-> <<ChargeChargeLoop, DipoleChargeLoop, QuadrupoleChargeLoop>>],
       [kind |-> "dipoles", cutoffRadiusSquare |-> _cutoffRadiusSquare, idx |-> "i_dipole_idx",
        loops |-> <<DipoleDipoleLoop, ChargeDipoleLoop, QuadrupoleDipoleLoop>>],
       [kind |-> "quadrupoles", cutoffRadiusSquare |-> _cutoffRadiusSquare, idx |-> "i_quadrupole_idx",
        loops |-> <<QuadrupoleQuadrupoleLoop, ChargeQuadrupoleLoop, DipoleQuadrupoleLoop>>] >>

IndexNames ==
    {"i_ljc_idx", "i_charge_idx", "i_charge_dipole_idx", "i_charge_quadrupole_idx",
     "i_dipole_charge_idx", "i_dipole_idx", "i_dipole_quadrupole_idx",
     "i_quadrupole_charge_idx", "i_quadrupole_dipole_idx", "i_quadrupole_idx"}

\* One stored value per running index.
PerIndex(a) ==
    [i_ljc_idx |-> a["i_ljc_idx"], i_charge_idx |-> a["i_charge_idx"],
     i_charge_dipole_idx |-> a["i_charge_dipole_idx"],
     i_charge_quadrupole_idx |-> a["i_charge_quadrupole_idx"],
     i_dipole_charge_idx |-> a["i_dipole_charge_idx"], i_dipole_idx |-> a["i_dipole_idx"],
     i_dipole_quadrupole_idx |-> a["i_dipole_quadrupole_idx"],
     i_quadrupole_charge_idx |-> a["i_quadrupole_charge_idx"],
     i_quadrupole_dipole_idx |-> a["i_quadrupole_dipole_idx"],
     i_quadrupole_idx |-> a["i_quadrupole_idx"]]

\* The state of a run: soa1 and soa2 (one object when the cell is paired
\* with itself), the running indices and the four vector sums.
PairsStart(soa1, soa2, same) ==
    [soa1 |-> soa1, soa2 |-> IF same THEN soa1 ELSE soa2, same |-> same,
     idx |-> PerIndex([n \in IndexNames |-> 0]),
     compute_molecule |-> PerKind([kind \in KindSet |-> FALSE]),
     sum_upot6lj |-> 0, sum_upotXpoles |-> 0, sum_virial |-> 0, sum_myRF |-> 0]

Soa2(st) == IF st.same THEN st.soa1 ELSE st.soa2

\* st with the arrays of a kind of soa1, of soa2, replaced.
WithSoa1(st, kind, a) == [st EXCEPT !.soa1.arr[kind] = a]
WithSoa2(st, kind, a) ==
    IF st.same THEN [st EXCEPT !.soa1.arr[kind] = a] ELSE [st EXCEPT !.soa2.arr[kind] = a]

RECURSIVE Sum3Field(_, _, _)
Sum3Field(out, fld, n) == IF n = 0 THEN Zero3 ELSE Add3(out[n - 1][fld], Sum3Field(out, fld, n - 1))

RECURSIVE SumField(_, _, _)
SumField(out, fld, n) == IF n = 0 THEN 0 ELSE out[n - 1][fld] + SumField(out, fld, n - 1)

\* The long loop of one source site over the target vectors from InitJ to
\* the rounded-up end: what the routine returns in every lane, zero in the
\* lanes of the vectors skipped for want of a set mask.
LongLoop(st, ForcePolicy, CalculateMacroscopic, L, i, local_i) ==
    LET tgt == Soa2(st).arr[L.tgt]
        si == st.idx[L.srcIdx] + local_i
        j0 == InitJ(ForcePolicy, st.idx[L.initIdx] + (IF L.perSite THEN local_i ELSE 0))
        end_longloop == vcp_ceil_to_vec_size(tgt.num)
        \* vcp_simd_movemask(forceMask) > 0 for the vector that holds lane j
        active(j) == /\ j >= j0 /\ j < end_longloop
                     /\ \E k \in SoAIndex :
                           /\ vcp_floor_to_vec_size(k) = vcp_floor_to_vec_size(j)
                           /\ tgt.dist_lookup[k]
        s1 == st.soa1.arr[L.src]
        source == Site(st.soa1._mol_pos[i + 1], s1.r[si], s1.e[si], s1.mag[si], s1.id[si])
        target(j) == Site(tgt.m_r[j], tgt.r[j], tgt.e[j], tgt.mag[j], tgt.id[j])
    IN  Array([j \in SoAIndex |->
            IF ~active(j) THEN LaneOut(Zero3, Zero3, Zero3, 0, 0, 0, 0)
            ELSE LoopBody(L.body, CalculateMacroscopic,
                          IF L.exchanged THEN target(j) ELSE source,
                          IF L.exchanged THEN source ELSE target(j),
                          tgt.dist_lookup[j])])

\* The stores of the long loop to the target's accumulators, then
\* hSum_Add_Store of sum_f1 and sum_M1 to source site si and the additions
\* to the four vector sums.
StoreLongLoop(st, L, si, out) ==
    LET tgt == Soa2(st).arr[L.tgt]
        tgtM == IF L.exchanged THEN "M1" ELSE "M2"
        srcM == IF L.exchanged THEN "M2" ELSE "M1"
        st2 == WithSoa2(st, L.tgt,
                  [tgt EXCEPT !.f = Array([j \in SoAIndex |-> Add3(tgt.f[j], Scale3(L.tgtSign, out[j].f))]),
                              !.M = Array([j \in SoAIndex |-> Add3(tgt.M[j], out[j][tgtM])])])
        src2 == st2.soa1.arr[L.src]
        st3 == WithSoa1(st2, L.src,
                  [src2 EXCEPT
                      !.f[si] = Add3(src2.f[si], Scale3(L.srcSign, Sum3Field(out, "f", SoACapacity))),
                      !.M[si] = Add3(src2.M[si], Sum3Field(out, srcM, SoACapacity))])
    IN  [st3 EXCEPT !.sum_upot6lj = @ + SumField(out, "upot6lj", SoACapacity),
                    !.sum_upotXpoles = @ + SumField(out, "upotXpoles", SoACapacity),
                    !.sum_virial = @ + SumField(out, "virial", SoACapacity),
                    !.sum_myRF = @ + SumField(out, "myRF", SoACapacity)]

\* One iteration of a loop's "for (local_i ...)".
LoopSite(st, ForcePolicy, CalculateMacroscopic, L, i, local_i) ==
    StoreLongLoop(st, L, st.idx[L.srcIdx] + local_i,
                  LongLoop(st, ForcePolicy, CalculateMacroscopic, L, i, local_i))

\* "for (local_i = 0; local_i < soa1._mol_num_of[src][i]; local_i++)"
RECURSIVE LoopSites(_, _, _, _, _, _)
LoopSites(st, ForcePolicy, CalculateMacroscopic, L, i, local_i) ==
    IF local_i < st.soa1._mol_num_of[L.src][i + 1]
    THEN LoopSites(LoopSite(st, ForcePolicy, CalculateMacroscopic, L, i, local_i),
                   ForcePolicy, CalculateMacroscopic, L, i, local_i + 1)
    ELSE st

\* A loop over all sites of its source kind of molecule i.
RunLoop(st, ForcePolicy, CalculateMacroscopic, L, i) ==
    LoopSites(st, ForcePolicy, CalculateMacroscopic, L, i, 0)

RECURSIVE RunLoops(_, _, _, _, _)
RunLoops(st, ForcePolicy, CalculateMacroscopic, loops, i) ==
    IF loops = << >> THEN st
    ELSE RunLoops(RunLoop(st, ForcePolicy, CalculateMacroscopic, loops[1], i),
                  ForcePolicy, CalculateMacroscopic, Tail(loops), i)

\* The running indices of a block's loops all advanced by the number of
\* sites of the block's own kind in molecule i.
Advance_byBlockKind(st, B, i) ==
    [st EXCEPT !.idx = PerIndex([n \in IndexNames |->
                          IF \E k \in 1..Len(B.loops) : B.loops[k].srcIdx = n
                          THEN st.idx[n] + st.soa1._mol_num_of[B.kind][i + 1]
                          ELSE st.idx[n]])]

\* The running indices of a block's loops advanced by the sites of molecule
\* i: what both the skipping branch and the computing branch leave.
Advance(st, B, i) ==
    [st EXCEPT !.idx = PerIndex([n \in IndexNames |->
                          IF \E k \in 1..Len(B.loops) : B.loops[k].srcIdx = n
                          THEN LET L == B.loops[CHOOSE k \in 1..Len(B.loops) : B.loops[k].srcIdx = n]
                               IN  st.idx[n] + st.soa1._mol_num_of[L.src][i + 1]
                          ELSE st.idx[n]])]

\* "if (!vcp_simd_movemask(compute_molecule_...)) {...} else {...}"
RunBlock(st, ForcePolicy, CalculateMacroscopic, B, i) ==
    IF ~st.compute_molecule[B.kind] THEN Advance(st, B, i)
    ELSE Advance(RunLoops(st, ForcePolicy, CalculateMacroscopic, B.loops, i), B, i)

\* The block whose lookup is the one of a kind.
BlockOf(kind) == Blocks[CHOOSE k \in 1..Len(Blocks) : Blocks[k].kind = kind]

\* The four calcDistLookup calls for molecule i.
Lookups(st, ForcePolicy, i) ==
    PerKind([kind \in KindSet |->
        LET a == Soa2(st).arr[kind]
        IN  calcDistLookup(ForcePolicy, st.soa1._mol_pos[i + 1], st.idx[BlockOf(kind).idx], a.num,
                           BlockOf(kind).cutoffRadiusSquare, a.dist_lookup, a.m_r)])

\* What the four calls leave: soa2's lookup arrays written and the four
\* compute_molecule masks.
StoreLookups(st, looked) ==
    LET stored(soa) ==
            [soa EXCEPT !.arr = PerKind([kind \in KindSet |->
                [soa.arr[kind] EXCEPT !.dist_lookup = looked[kind].dist_lookup]])]
    IN  [st EXCEPT !.soa1 = IF st.same THEN stored(st.soa1) ELSE st.soa1,
                   !.soa2 = IF st.same THEN st.soa2 ELSE stored(st.soa2),
                   !.compute_molecule = PerKind([kind \in KindSet |-> looked[kind].compute_molecule])]

RECURSIVE RunBlocks(_, _, _, _, _)
RunBlocks(st, ForcePolicy, CalculateMacroscopic, i, k) ==
    IF k = 0 THEN st
    ELSE RunBlock(RunBlocks(st, ForcePolicy, CalculateMacroscopic, i, k - 1),
                  ForcePolicy, CalculateMacroscopic, Blocks[k], i)

\* The body of "for (size_t i = 0; i < soa1._mol_num; ++i)".
SourceMolecule(st, ForcePolicy, CalculateMacroscopic, i) ==
    RunBlocks(StoreLookups(st, Lookups(st, ForcePolicy, i)), ForcePolicy, CalculateMacroscopic, i,
              Len(Blocks))

\* "for (size_t i = 0; i < soa1._mol_num; ++i)"
RECURSIVE SourceMolecules(_, _, _, _)
SourceMolecules(st, ForcePolicy, CalculateMacroscopic, i) ==
    IF i < st.soa1._mol_num
    THEN SourceMolecules(SourceMolecule(st, ForcePolicy, CalculateMacroscopic, i),
                         ForcePolicy, CalculateMacroscopic, i + 1)
    ELSE st

\* The end of a run: the two slabs and the horizontal sums of the four
\* vector sums, the reaction-field sum negated.
PairsEnd(st) ==
    [soa1 |-> st.soa1, soa2 |-> Soa2(st),
     upot6lj |-> st.sum_upot6lj, upotXpoles |-> st.sum_upotXpoles,
     virial |-> st.sum_virial, myRF |-> -st.sum_myRF]

\* _calculatePairs<ForcePolicy, CalculateMacroscopic>(soa1, soa2): the two
\* slabs afterwards and what the final hSum_Add_Store calls add to _upot6lj,
\* _upotXpoles, _virial and _myRF.
_calculatePairs(ForcePolicy, CalculateMacroscopic, soa1, soa2, same) ==
    PairsEnd(SourceMolecules(PairsStart(soa1, soa2, same), ForcePolicy, CalculateMacroscopic, 0))

(***************************************************************************)
(* Specification SpecKernel: one lane of one pair routine                  *)
(***************************************************************************)
\* The values the variables of the other specifications rest at.
\* A part of the program that takes no part in a specification.
Off == [on |-> FALSE]

\* The code around the cell processor at rest.
NoDomain == [localUpot |-> 0, localVirial |-> 0]
LaterOff == th = Off /\ mir = Off /\ ctor = Off /\ fc = Off /\ tab = Off

AroundOff == _domain = NoDomain /\ nc = Off /\ sim = Off /\ hs = Off /\ gen = Off /\ LaterOff

NoOp == [op |-> "none", a |-> 0, b |-> 0, ForcePolicy |-> "none", CalculateMacroscopic |-> FALSE]

LanePos == {<<0, 0, 0>>, <<1, 0, 0>>, <<1, 1, 0>>, <<3, 0, 0>>}
LaneOffset == {<<0, 0, 0>>, <<0, 0, 1>>}
LaneE == {<<1, 0, 0>>, <<0, 0, 1>>}

LaneInputs ==
    {l \in [body : Bodies, calculateMacroscopic : BOOLEAN, forceMask : BOOLEAN,
            d1 : LaneOffset, e1 : LaneE, m2_r : LanePos, d2 : LaneOffset, e2 : LaneE] :
        \* a set mask is never stored for two sites at the same place; a clear
        \* mask also covers the padded lanes, whose coordinates are zero
        l.forceMask => l.d1 # Add3(l.m2_r, l.d2)}

FirstSite(l) == Site(Zero3, l.d1, l.e1, 1, 0)
SecondSite(l) == Site(l.m2_r, Add3(l.m2_r, l.d2), l.e2, 1, IF l.d2 = Zero3 THEN 0 ELSE 2)

InitKernel ==
    /\ lb \in {[on |-> TRUE, applied |-> FALSE, in |-> l, out |-> LaneOut(Zero3, Zero3, Zero3, 0, 0, 0, 0)] :
                 l \in LaneInputs}
    /\ vecType = "NOVEC"
    /\ cells = << >>
    /\ soas = << >>
    /\ _particleCellDataVector = << >>
    /\ _upot6lj = 0 /\ _upotXpoles = 0 /\ _virial = 0 /\ _myRF = 0
    /\ lastOp = NoOp
    /\ nCalls = 0
    /\ budget = 0
    /\ dl = Off
    /\ rk = Off
    /\ AroundOff

\* The routine computes the lane.
RunLoopBody ==
    /\ lb.on /\ ~lb.applied
    /\ lb' = [lb EXCEPT !.applied = TRUE,
                        !.out = LoopBody(lb.in.body, lb.in.calculateMacroscopic,
                                         FirstSite(lb.in), SecondSite(lb.in), lb.in.forceMask)]
    /\ UNCHANGED <<vecType, processorVars, dl, rk, aroundVars>>

NextKernel == RunLoopBody

SpecKernel == InitKernel /\ [][NextKernel]_vars

\* C7: in each of the seven pair routines a lane whose force mask is zero
\* yields a zero force, zero torques on both sites and adds zero to the
\* potential sums, the virial and the reaction-field sum.
C7_MaskedLaneIsZero ==
    (lb.on /\ lb.applied /\ ~lb.in.forceMask) =>
        lb.out = LaneOut(Zero3, Zero3, Zero3, 0, 0, 0, 0)

\* The LJ routine has run with macroscopic sums enabled on a masked-out lane
\* of two distinct sites, the lane whose shifted potential is not zero
\* before masking.
C7_Witness ==
    /\ lb.on /\ lb.applied /\ ~lb.in.forceMask
    /\ lb.in.body = "LJ" /\ lb.in.calculateMacroscopic
    /\ lb.in.m2_r = <<3, 0, 0>>

(***************************************************************************)
(* Specification SpecDist: the calcDistLookup calls of one _calculatePairs *)
(* run for one kind of site, source molecule after source molecule         *)
(***************************************************************************)
\* Bounds on the molecules of the source and of the target cell.
MaxMols == 3
MaxTargetMols == 2

\* Positions of the k-th molecule of the source cell and of a neighbour cell.
SourcePos == Stored([k \in 1..MaxMols |-> <<(3 * k) \div 2, k % 2, 0>>])
TargetPos == Stored([k \in 1..MaxTargetMols |-> <<2 * k - 1, 2, 0>>])

RECURSIVE SumSeq(_)
SumSeq(q) == IF q = << >> THEN 0 ELSE q[1] + SumSeq(Tail(q))

\* The molecule (1-based) that owns site j (0-based) when the molecules carry
\* nums[1], nums[2], ... sites in order.
RECURSIVE OwnerOf(_, _)
OwnerOf(nums, j) == IF j < nums[1] THEN 1 ELSE 1 + OwnerOf(Tail(nums), j - nums[1])

\* The m_r array preprocessCell fills for molecules at pos[k] with nums[k]
\* sites; resize pads it with zeros.
FillMR(pos, nums) ==
    Array([j \in SoAIndex |-> IF j < SumSeq(nums) THEN pos[OwnerOf(nums, j)] ELSE Zero3])

SiteCounts(n) == [1..n -> 0..MaxSitesPerMol]

\* The real entries of a lookup array are zero after preprocessCell; the
\* others hold what an earlier user of the slab left.
StaleLookup(num, stale) == Array([j \in SoAIndex |-> j >= num /\ stale])

DistWalk(ForcePolicy, rc2, nums1, nums2, pos2, stale) ==
    [on |-> TRUE, ForcePolicy |-> ForcePolicy, cutoffRadiusSquare |-> rc2,
     mol_pos |-> [k \in 1..Len(nums1) |-> SourcePos[k]], mol_num |-> nums1,
     m_r |-> FillMR(pos2, nums2), num |-> SumSeq(nums2),
     dist_lookup |-> StaleLookup(SumSeq(nums2), stale), stale |-> stale,
     i |-> 0, i_center_idx |-> 0, called |-> FALSE, at |-> [i |-> 0, i_center_idx |-> 0],
     compute_molecule |-> FALSE]

InitDist ==
    /\ vecType \in {"NOVEC", "SSE3", "AVX"}
    /\ \E rc2 \in {_LJCutoffRadiusSquare, _cutoffRadiusSquare}, stale \in BOOLEAN,
          n1 \in 1..MaxMols :
         \E nums1 \in SiteCounts(n1) :
            \* processCell runs the loops on cells of two molecules or more
            \/ /\ n1 >= 2
               /\ dl = DistWalk("SingleCellPolicy_", rc2, nums1, nums1, SourcePos, stale)
            \/ \E n2 \in 1..MaxTargetMols : \E nums2 \in SiteCounts(n2) :
                  dl = DistWalk("CellPairPolicy_", rc2, nums1, nums2, TargetPos, stale)
    /\ cells = << >>
    /\ soas = << >>
    /\ _particleCellDataVector = << >>
    /\ _upot6lj = 0 /\ _upotXpoles = 0 /\ _virial = 0 /\ _myRF = 0
    /\ lastOp = NoOp
    /\ nCalls = 0
    /\ budget = 0
    /\ lb = Off
    /\ rk = Off
    /\ AroundOff

\* The call for source molecule dl.i with the running site index, and the
\* advance of the running index by the molecule's sites.
DistLookupStep ==
    /\ dl.on /\ dl.i < Len(dl.mol_pos)
    /\ LET r == calcDistLookup(dl.ForcePolicy, dl.mol_pos[dl.i + 1], dl.i_center_idx, dl.num,
                               dl.cutoffRadiusSquare, dl.dist_lookup, dl.m_r)
       IN  dl' = [dl EXCEPT !.dist_lookup = r.dist_lookup,
                            !.compute_molecule = r.compute_molecule,
                            !.called = TRUE,
                            !.at = [i |-> dl.i, i_center_idx |-> dl.i_center_idx],
                            !.i = dl.i + 1,
                            !.i_center_idx = dl.i_center_idx + dl.mol_num[dl.i + 1]]
    /\ UNCHANGED <<vecType, processorVars, lb, rk, aroundVars>>

NextDist == DistLookupStep

SpecDist == InitDist /\ [][NextDist]_vars

\* The entries the claim speaks of after the last call: from the policy's
\* start index up to the true site count.
LookupRange == {j \in SoAIndex : j >= InitJ(dl.ForcePolicy, dl.at.i_center_idx) /\ j < dl.num}

WithinCutoff(j) == Dist2(dl.mol_pos[dl.at.i + 1], dl.m_r, j) < dl.cutoffRadiusSquare

C6_PaddedLanesZero ==
    (dl.on /\ dl.called) =>
        \A j \in SoAIndex :
            (j >= dl.num /\ j < vcp_ceil_to_vec_size(dl.num)) => ~dl.dist_lookup[j]

\* A slab whose padded lanes were left set by an earlier user, a site count
\* that is no multiple of the width, and a call whose start index lies past
\* the site count.
C6_Witness ==
    /\ dl.on /\ dl.called /\ dl.stale
    /\ dl.num % VCP_VEC_SIZE # 0
    /\ InitJ(dl.ForcePolicy, dl.at.i_center_idx) > dl.num

(***************************************************************************)
(* Specification Spec: the cell processor on the cells of one rank         *)
(***************************************************************************)
\* Bound on the slabs allocated in one behaviour.
MaxSlabs == 2

Ex == <<1, 0, 0>>
Ez == <<0, 0, 1>>

\* The cells of a rank: which are halo cells and the molecules they hold.
Scenarios ==
    << << [isHaloCell |-> FALSE,
           molecules |-> <<Carrying(Molecule(1, <<0, 0, 0>>, Ex), <<1, 2, 3>>, <<4, 5, 6>>),
                           Molecule(2, <<1, 0, 0>>, Ez)>>],
          [isHaloCell |-> FALSE,
           molecules |-> <<Molecule(2, <<0, 1, 0>>, Ex), Molecule(1, <<1, 1, 0>>, Ez)>>] >>,
       << [isHaloCell |-> FALSE,
           molecules |-> <<Molecule(0, <<0, 0, 0>>, Ex), Molecule(0, <<1, 0, 0>>, Ez)>>],
          [isHaloCell |-> TRUE,
           molecules |-> <<Molecule(2, <<1, 1, 0>>, Ez), Molecule(1, <<2, 1, 0>>, Ex)>>] >>,
       << [isHaloCell |-> TRUE,
           molecules |-> <<Molecule(0, <<0, 0, 0>>, Ex), Molecule(2, <<1, 0, 0>>, Ez)>>],
          [isHaloCell |-> TRUE,
           molecules |-> <<Molecule(1, <<0, 1, 0>>, Ez)>>] >>,
       << [isHaloCell |-> FALSE,
           molecules |-> <<Molecule(2, <<0, 0, 0>>, Ex)>>],
          [isHaloCell |-> TRUE, molecules |-> << >>] >> >>

\* The builds and the orders of the cell indices each scenario is run with:
\* the build only matters where pairs are computed, the order only where
\* one of the two cells is a halo cell.
ScenarioBuilds == << {"NOVEC", "SSE3", "AVX"}, {"NOVEC", "SSE3", "AVX"}, {"AVX"}, {"SSE3"} >>
ScenarioOrders == << {TRUE}, {TRUE, FALSE}, {TRUE}, {TRUE, FALSE} >>

NumCells == Len(Scenarios[1])
CellIds == 1..NumCells

\* ParticleCell: getCellDataSoA() is the slab's id, 0 for the null pointer.
ParticleCell(content, cellIndex) ==
    [isHaloCell |-> content.isHaloCell, getCellIndex |-> cellIndex,
     molecules |-> content.molecules, getCellDataSoA |-> 0]

Init ==
    /\ \E k \in 1..Len(Scenarios) :
          /\ vecType \in ScenarioBuilds[k]
          /\ \E ascending \in ScenarioOrders[k] :
                cells = [c \in CellIds |->
                            ParticleCell(Scenarios[k][c], IF ascending THEN c - 1 ELSE NumCells - c)]
    /\ soas = << >>
    /\ _particleCellDataVector = << >>
    /\ _upot6lj = 0 /\ _upotXpoles = 0 /\ _virial = 0 /\ _myRF = 0
    /\ lastOp = NoOp
    /\ nCalls = 0
    /\ budget = 0
    /\ dl = Off
    /\ lb = Off
    /\ rk = Off
    /\ AroundOff

Op(op, a, b, ForcePolicy, CalculateMacroscopic) ==
    [op |-> op, a |-> a, b |-> b, ForcePolicy |-> ForcePolicy,
     CalculateMacroscopic |-> CalculateMacroscopic]

RECURSIVE NewSlabs(_, _)
NewSlabs(first, n) == IF n = 0 THEN << >> ELSE <<first>> \o NewSlabs(first + 1, n - 1)

initTraversal(numCells) ==
    /\ nCalls < MaxCalls
    /\ Len(soas) + (IF numCells > Len(_particleCellDataVector)
                    THEN numCells - Len(_particleCellDataVector) ELSE 0) <= MaxSlabs
    /\ _virial' = 0 /\ _upot6lj' = 0 /\ _upotXpoles' = 0 /\ _myRF' = 0
    /\ IF numCells > Len(_particleCellDataVector)
       THEN LET n == numCells - Len(_particleCellDataVector)
            IN  /\ soas' = soas \o [k \in 1..n |-> NewCellDataSoA]
                /\ _particleCellDataVector' = _particleCellDataVector \o NewSlabs(Len(soas) + 1, n)
       ELSE UNCHANGED <<soas, _particleCellDataVector>>
    /\ lastOp' = Op("initTraversal", numCells, 0, "none", FALSE)
    /\ budget' = numCells
    /\ nCalls' = nCalls + 1
    /\ UNCHANGED <<vecType, cells, dl, lb, rk, aroundVars>>

Back(q) == q[Len(q)]
\* A pop_back that removes nothing.
PopBack_keeps(q) == q

\* std::vector::pop_back
PopBack(q) == SubSeq(q, 1, Len(q) - 1)

\* preprocessCell that leaves the slab in the pool.
preprocessCell_noPop(c) ==
    /\ nCalls < MaxCalls
    /\ cells[c].getCellDataSoA = 0
    /\ _particleCellDataVector # << >>
    /\ LET soaPtr == Back(_particleCellDataVector)
       IN  /\ soas' = [soas EXCEPT ![soaPtr] = preprocessSoA(soas[soaPtr], cells[c].molecules)]
           /\ cells' = [cells EXCEPT ![c].getCellDataSoA = soaPtr]
           /\ UNCHANGED _particleCellDataVector
    /\ lastOp' = Op("preprocessCell", c, 0, "none", FALSE)
    /\ budget' = IF budget > 0 THEN budget - 1 ELSE 0
    /\ nCalls' = nCalls + 1
    /\ UNCHANGED <<vecType, _upot6lj, _upotXpoles, _virial, _myRF, dl, lb, rk, aroundVars>>

preprocessCell(c) ==
    /\ nCalls < MaxCalls
    /\ cells[c].getCellDataSoA = 0
    /\ _particleCellDataVector # << >>
    /\ LET soaPtr == Back(_particleCellDataVector)
       IN  /\ soas' = [soas EXCEPT ![soaPtr] = preprocessSoA(soas[soaPtr], cells[c].molecules)]
           /\ cells' = [cells EXCEPT ![c].getCellDataSoA = soaPtr]
           /\ _particleCellDataVector' = PopBack(_particleCellDataVector)
    /\ lastOp' = Op("preprocessCell", c, 0, "none", FALSE)
    /\ budget' = IF budget > 0 THEN budget - 1 ELSE 0
    /\ nCalls' = nCalls + 1
    /\ UNCHANGED <<vecType, _upot6lj, _upotXpoles, _virial, _myRF, dl, lb, rk, aroundVars>>

postprocessCell(c) ==
    /\ nCalls < MaxCalls
    /\ cells[c].getCellDataSoA # 0
    /\ LET soa == cells[c].getCellDataSoA
       IN  /\ cells' = [cells EXCEPT
                          ![c].molecules = [m \in 1..Len(cells[c].molecules) |->
                                              postprocessMolecule(soas[soa], cells[c].molecules, m)],
                          ![c].getCellDataSoA = 0]
           /\ _particleCellDataVector' = Append(_particleCellDataVector, soa)
    /\ lastOp' = Op("postprocessCell", c, 0, "none", FALSE)
    /\ budget' = 0
    /\ nCalls' = nCalls + 1
    /\ UNCHANGED <<vecType, soas, _upot6lj, _upotXpoles, _virial, _myRF, dl, lb, rk, aroundVars>>

\* What a _calculatePairs run on slabs p1 and p2 leaves: the slabs as the
\* loops stored them and the four sums added to the processor's.
StorePairs(p1, p2, r) ==
    /\ soas' = [soas EXCEPT ![p1] = r.soa1, ![p2] = r.soa2]
    /\ _upot6lj' = _upot6lj + r.upot6lj
    /\ _upotXpoles' = _upotXpoles + r.upotXpoles
    /\ _virial' = _virial + r.virial
    /\ _myRF' = _myRF + r.myRF

\* A _calculatePairs run on the slabs of cells a and b and its final
\* hSum_Add_Store calls.
RunPairs(ForcePolicy, CalculateMacroscopic, a, b) ==
    LET p1 == cells[a].getCellDataSoA
        p2 == cells[b].getCellDataSoA
    IN  StorePairs(p1, p2, _calculatePairs(ForcePolicy, CalculateMacroscopic, soas[p1], soas[p2], p1 = p2))

\* processCell without the test for halo cells.
processCellBranch_noHaloTest(c) == soas[c.getCellDataSoA]._mol_num >= 2

\* processCell: whether the cell's pairs are computed.
processCellBranch(c) == ~(c.isHaloCell \/ soas[c.getCellDataSoA]._mol_num < 2)

processCell(c) ==
    /\ nCalls < MaxCalls
    /\ cells[c].getCellDataSoA # 0
    /\ IF processCellBranch(cells[c])
       THEN /\ RunPairs("SingleCellPolicy_", TRUE, c, c)
            /\ lastOp' = Op("processCell", c, c, "SingleCellPolicy_", TRUE)
       ELSE /\ lastOp' = Op("processCell", c, c, "none", FALSE)
            /\ UNCHANGED <<soas, _upot6lj, _upotXpoles, _virial, _myRF>>
    /\ nCalls' = nCalls + 1
    /\ UNCHANGED <<vecType, cells, _particleCellDataVector, budget, dl, lb, rk, aroundVars>>

\* processCellPair's choice with the comparison of the cell indices turned.
processCellPairBranch_turned(c1, c2) ==
    IF soas[c1.getCellDataSoA]._mol_num = 0 \/ soas[c2.getCellDataSoA]._mol_num = 0
    THEN [run |-> FALSE, CalculateMacroscopic |-> FALSE]
    ELSE IF ~(c1.isHaloCell \/ c2.isHaloCell)
         THEN [run |-> TRUE, CalculateMacroscopic |-> TRUE]
         ELSE IF c1.isHaloCell = (~c2.isHaloCell)
              THEN IF c1.getCellIndex > c2.getCellIndex
                   THEN [run |-> TRUE, CalculateMacroscopic |-> TRUE]
                   ELSE [run |-> TRUE, CalculateMacroscopic |-> FALSE]
              ELSE [run |-> FALSE, CalculateMacroscopic |-> FALSE]

\* processCellPair accumulating the sums whenever one cell is a halo cell.
processCellPairBranch_alwaysCounts(c1, c2) ==
    IF soas[c1.getCellDataSoA]._mol_num = 0 \/ soas[c2.getCellDataSoA]._mol_num = 0
    THEN [run |-> FALSE, CalculateMacroscopic |-> FALSE]
    ELSE IF ~(c1.isHaloCell \/ c2.isHaloCell)
         THEN [run |-> TRUE, CalculateMacroscopic |-> TRUE]
         ELSE IF c1.isHaloCell = (~c2.isHaloCell)
              THEN [run |-> TRUE, CalculateMacroscopic |-> TRUE]
              ELSE [run |-> FALSE, CalculateMacroscopic |-> FALSE]

\* processCellPair without the test for two halo cells.
processCellPairBranch_haloPairRuns(c1, c2) ==
    IF soas[c1.getCellDataSoA]._mol_num = 0 \/ soas[c2.getCellDataSoA]._mol_num = 0
    THEN [run |-> FALSE, CalculateMacroscopic |-> FALSE]
    ELSE IF ~(c1.isHaloCell \/ c2.isHaloCell)
         THEN [run |-> TRUE, CalculateMacroscopic |-> TRUE]
         ELSE IF c1.getCellIndex < c2.getCellIndex
              THEN [run |-> TRUE, CalculateMacroscopic |-> TRUE]
              ELSE [run |-> TRUE, CalculateMacroscopic |-> FALSE]

\* processCellPair: whether _calculatePairs runs and with which
\* CalculateMacroscopic.
processCellPairBranch(c1, c2) ==
    IF soas[c1.getCellDataSoA]._mol_num = 0 \/ soas[c2.getCellDataSoA]._mol_num = 0
    THEN [run |-> FALSE, CalculateMacroscopic |-> FALSE]
    ELSE IF ~(c1.isHaloCell \/ c2.isHaloCell)
         THEN [run |-> TRUE, CalculateMacroscopic |-> TRUE]
         ELSE IF c1.isHaloCell = (~c2.isHaloCell)
              THEN IF c1.getCellIndex < c2.getCellIndex
                   THEN [run |-> TRUE, CalculateMacroscopic |-> TRUE]
                   ELSE [run |-> TRUE, CalculateMacroscopic |-> FALSE]
              ELSE [run |-> FALSE, CalculateMacroscopic |-> FALSE]

processCellPair(c1, c2) ==
    /\ nCalls < MaxCalls
    /\ c1 # c2
    /\ cells[c1].getCellDataSoA # 0
    /\ cells[c2].getCellDataSoA # 0
    /\ LET branch == processCellPairBranch(cells[c1], cells[c2])
       IN  IF branch.run
           THEN /\ RunPairs("CellPairPolicy_", branch.CalculateMacroscopic, c1, c2)
                /\ lastOp' = Op("processCellPair", c1, c2, "CellPairPolicy_", branch.CalculateMacroscopic)
           ELSE /\ lastOp' = Op("processCellPair", c1, c2, "none", FALSE)
                /\ UNCHANGED <<soas, _upot6lj, _upotXpoles, _virial, _myRF>>
    /\ nCalls' = nCalls + 1
    /\ UNCHANGED <<vecType, cells, _particleCellDataVector, budget, dl, lb, rk, aroundVars>>

\* A local potential that hands the sixfold LJ sum over as it is.
LocalUpot_unconverted(upot6lj, upotXpoles, myRF) == upot6lj + upotXpoles + myRF

\* _upot6lj / 6.0 + _upotXpoles + _myRF
LocalUpot(upot6lj, upotXpoles, myRF) == Quot(upot6lj, 6) + upotXpoles + myRF

\* VectorizedCellProcessor::endTraversal.  It ends the traversal: no further
\* call is followed.
endTraversal ==
    /\ nCalls < MaxCalls
    /\ _domain' = [localVirial |-> _virial + 3 * _myRF,
                   localUpot |-> LocalUpot(_upot6lj, _upotXpoles, _myRF)]
    /\ lastOp' = Op("endTraversal", 0, 0, "none", FALSE)
    /\ nCalls' = MaxCalls
    /\ UNCHANGED <<vecType, cells, soas, _particleCellDataVector, _upot6lj, _upotXpoles,
                   _virial, _myRF, budget, dl, lb, rk, nc, sim, hs, gen, laterVars>>

Next ==
    \/ endTraversal
    \/ \E numCells \in CellIds : initTraversal(numCells)
    \/ \E c \in CellIds : preprocessCell(c)
    \/ \E c \in CellIds : processCell(c)
    \/ \E c1, c2 \in CellIds : processCellPair(c1, c2)
    \/ \E c \in CellIds : postprocessCell(c)

Spec == Init /\ [][Next]_vars

(***************************************************************************)
(* Properties of the cell processor                                        *)
(***************************************************************************)
\* The step taken is the call op(a, b).
Called(op, a, b) ==
    /\ nCalls' = nCalls + 1
    /\ lastOp'.op = op /\ lastOp'.a = a /\ lastOp'.b = b

\* The slab of cell c.
SoAOf(c) == soas[cells[c].getCellDataSoA]

\* The force and torque accumulators of all slabs.
Accumulators ==
    [k \in 1..Len(soas) |->
        [kind \in KindSet |-> <<soas[k].arr[kind].f, soas[k].arr[kind].M>>]]

\* The macroscopic sums.
Sums == <<_upot6lj, _upotXpoles, _virial, _myRF>>

OneIsHalo(c1, c2) == cells[c1].isHaloCell = (~cells[c2].isHaloCell)

\* C1: processCellPair(c1, c2) on two non-empty cells, exactly one of them a
\* halo cell, runs the pair routines on both slabs, with the macroscopic
\* sums accumulated if and only if c1.getCellIndex() < c2.getCellIndex();
\* with neither cell a halo cell it runs them with the sums accumulated.
C1_OneHaloRunsAndCounts ==
    [][\A c1, c2 \in CellIds :
          (/\ Called("processCellPair", c1, c2)
           /\ SoAOf(c1)._mol_num > 0 /\ SoAOf(c2)._mol_num > 0)
          => /\ OneIsHalo(c1, c2)
                   => RunPairs("CellPairPolicy_",
                               cells[c1].getCellIndex < cells[c2].getCellIndex, c1, c2)
             /\ (~cells[c1].isHaloCell /\ ~cells[c2].isHaloCell)
                   => RunPairs("CellPairPolicy_", TRUE, c1, c2)]_vars

\* Some force accumulator of a real site of cell c's slab is not zero.
HasForce(c) ==
    \E kind \in KindSet : \E j \in SoAIndex :
        j < SoAOf(c).arr[kind].num /\ SoAOf(c).arr[kind].f[j] # Zero3

\* processCellPair has run on an owned and a halo cell with the larger cell
\* index first: both slabs carry forces and no sum has been touched.
C1_Witness ==
    /\ lastOp.op = "processCellPair"
    /\ OneIsHalo(lastOp.a, lastOp.b)
    /\ cells[lastOp.a].getCellIndex > cells[lastOp.b].getCellIndex
    /\ ~lastOp.CalculateMacroscopic
    /\ HasForce(lastOp.a) /\ HasForce(lastOp.b)
    /\ Sums = <<0, 0, 0, 0>>

\* C3: processCell(c) changes no force or torque entry and none of
\* _upot6lj, _upotXpoles, _virial, _myRF when c is a halo cell or its slab
\* holds fewer than 2 molecules; otherwise it runs the pair routines on the
\* slab under SingleCellPolicy_ with the sums accumulated.
C3_ProcessCell ==
    [][\A c \in CellIds :
          Called("processCell", c, c)
          => IF cells[c].isHaloCell \/ SoAOf(c)._mol_num < 2
             THEN Accumulators' = Accumulators /\ Sums' = Sums
             ELSE RunPairs("SingleCellPolicy_", TRUE, c, c)]_vars

\* processCell has been called on a halo cell of at least two molecules.
C3_Witness ==
    /\ lastOp.op = "processCell"
    /\ cells[lastOp.a].isHaloCell
    /\ SoAOf(lastOp.a)._mol_num >= 2

\* C4: processCellPair(c1, c2) leaves every force, torque and macroscopic
\* accumulator as it was when both cells are halo cells and when either cell
\* holds no molecule.
C4_ProcessCellPairSkips ==
    [][\A c1, c2 \in CellIds :
          (/\ Called("processCellPair", c1, c2)
           /\ \/ cells[c1].isHaloCell /\ cells[c2].isHaloCell
              \/ SoAOf(c1)._mol_num = 0
              \/ SoAOf(c2)._mol_num = 0)
          => Accumulators' = Accumulators /\ Sums' = Sums]_vars

\* processCellPair has been called on two halo cells that both hold
\* molecules.
C4_Witness ==
    /\ lastOp.op = "processCellPair"
    /\ cells[lastOp.a].isHaloCell /\ cells[lastOp.b].isHaloCell
    /\ SoAOf(lastOp.a)._mol_num > 0 /\ SoAOf(lastOp.b)._mol_num > 0

\* The sum of the first n entries of an array of triples.
RECURSIVE Sum3(_, _)
Sum3(a, n) == IF n = 0 THEN Zero3 ELSE Add3(a[n - 1], Sum3(a, n - 1))

\* The sum of all site force accumulators of a slab.
SlabForce(soa) ==
    Add3(Add3(Sum3(soa.arr["ljc"].f, SoACapacity), Sum3(soa.arr["charges"].f, SoACapacity)),
         Add3(Sum3(soa.arr["dipoles"].f, SoACapacity), Sum3(soa.arr["quadrupoles"].f, SoACapacity)))

\* The sum of all site force accumulators of the first n slabs of ss.
RECURSIVE TotalForce(_, _)
TotalForce(ss, n) == IF n = 0 THEN Zero3 ELSE Add3(SlabForce(ss[n]), TotalForce(ss, n - 1))

\* C8: every force _calculatePairs adds to a source site it subtracts from
\* the target site, in all ten loops, so the sum of all site force
\* accumulators over soa1 and soa2 is after the call what it was before.
C8_ForcesCancel ==
    [][(nCalls' = nCalls + 1 /\ lastOp'.ForcePolicy # "none")
          => TotalForce(soas', Len(soas)) = TotalForce(soas, Len(soas))]_vars

\* A run on two cells has left a force on a site of every kind of both
\* slabs.
C8_Witness ==
    /\ lastOp.op = "processCellPair"
    /\ lastOp.ForcePolicy = "CellPairPolicy_"
    /\ \A c \in {lastOp.a, lastOp.b} : \A kind \in KindSet :
          \E j \in SoAIndex : j < SoAOf(c).arr[kind].num /\ SoAOf(c).arr[kind].f[j] # Zero3

\* The cells slab k is attached to.
CellsOf(k) == {c \in CellIds : cells[c].getCellDataSoA = k}

\* The places of the pool that hold slab k.
PlacesOf(k) == {i \in 1..Len(_particleCellDataVector) : _particleCellDataVector[i] = k}

\* C9: each slab is either in the pool _particleCellDataVector or attached
\* to exactly one cell, never both, never to two cells; preprocessCell moves
\* the pool's last slab to the cell, postprocessCell moves the cell's slab
\* back and clears the cell's pointer; and after initTraversal(n) the pool is
\* not empty while fewer than n cells have been preprocessed and none
\* postprocessed.
C9_SlabPool ==
    /\ [](\A k \in 1..Len(soas) : Cardinality(CellsOf(k)) + Cardinality(PlacesOf(k)) = 1)
    /\ [](budget > 0 => _particleCellDataVector # << >>)
    /\ [][\A c \in CellIds :
            /\ Called("preprocessCell", c, 0)
                  => /\ cells[c].getCellDataSoA = 0
                     /\ cells'[c].getCellDataSoA = Back(_particleCellDataVector)
                     /\ _particleCellDataVector' = PopBack(_particleCellDataVector)
            /\ Called("postprocessCell", c, 0)
                  => /\ cells'[c].getCellDataSoA = 0
                     /\ _particleCellDataVector'
                           = Append(_particleCellDataVector, cells[c].getCellDataSoA)]_vars

\* After initTraversal for all cells every cell has been preprocessed: each
\* holds a slab of its own and the pool is empty.
C9_Witness ==
    /\ lastOp.op = "preprocessCell"
    /\ \A c \in CellIds : cells[c].getCellDataSoA # 0
    /\ _particleCellDataVector = << >>
    /\ Len(soas) = NumCells

\* C10: after preprocessCell(c) every force entry of every real site, every
\* torque entry of every real dipole and quadrupole and every real
\* dist-lookup entry of the slab is zero, whatever the slab held before, and
\* LJ site j of a molecule of component k carries the id _compIDs[k] + j.
C10_PreprocessedSlab ==
    lastOp.op = "preprocessCell"
    => LET soa == SoAOf(lastOp.a)
           molecules == cells[lastOp.a].molecules
       IN  /\ \A kind \in KindSet : \A j \in SoAIndex :
                 j < soa.arr[kind].num
                 => /\ soa.arr[kind].f[j] = Zero3
                    /\ ~soa.arr[kind].dist_lookup[j]
                    /\ kind \in {"dipoles", "quadrupoles"} => soa.arr[kind].M[j] = Zero3
           /\ \A m \in 1..Len(molecules) : \A j \in 0..(NumSites(molecules[m], "ljc") - 1) :
                 soa.arr["ljc"].id[CountSites(SubSeq(molecules, 1, m - 1), "ljc") + j]
                     = _compIDs[molecules[m].componentid] + j

\* preprocessCell has filled a slab whose last user left forces in it: past
\* the real entries they are still there.
C10_Witness ==
    /\ lastOp.op = "preprocessCell"
    /\ SoAOf(lastOp.a).arr["ljc"].num > 0
    /\ \E j \in SoAIndex :
          j >= SoAOf(lastOp.a).arr["ljc"].num /\ SoAOf(lastOp.a).arr["ljc"].f[j] # Zero3

\* The slab indices at which preprocessCell wrote site k (1-based) of kind
\* `kind` of molecule mol: the real entries that hold the molecule's
\* position and the site's position.
WrittenAt(soa, mol, kind, k) ==
    {j \in SoAIndex : /\ j < soa.arr[kind].num
                      /\ soa.arr[kind].m_r[j] = mol.r
                      /\ soa.arr[kind].r[j] = Add3(MolSites(mol, kind)[k].d, mol.r)}

RECURSIVE SumOver(_, _)
SumOver(a, S) ==
    IF S = {} THEN Zero3 ELSE LET j == CHOOSE x \in S : TRUE IN Add3(a[j], SumOver(a, S \ {j}))

\* The slab indices written for the sites of a kind of molecule mol.
WrittenFor(soa, mol, kind) ==
    UNION {WrittenAt(soa, mol, kind, k) : k \in 1..NumSites(mol, kind)}

\* C11: postprocessCell(c) adds to every site of every molecule of c the
\* force held at the one slab index preprocessCell(c) wrote the site at, and
\* to the molecule's torque the torques held at the indices of its dipoles
\* and quadrupoles; every real slab entry belongs to exactly one site.
C11_PostprocessAdds ==
    [][\A c \in CellIds :
          Called("postprocessCell", c, 0) =>
             LET soa == SoAOf(c)
                 before == cells[c].molecules
                 after == cells'[c].molecules
             IN  /\ Len(after) = Len(before)
                 /\ \A m \in 1..Len(before) : \A kind \in KindSet :
                       \A k \in 1..NumSites(before[m], kind) :
                          /\ Cardinality(WrittenAt(soa, before[m], kind, k)) = 1
                          /\ \A j \in WrittenAt(soa, before[m], kind, k) :
                                after[m].F[kind][k] = Add3(before[m].F[kind][k], soa.arr[kind].f[j])
                 /\ \A m \in 1..Len(before) :
                       after[m].M = Add3(before[m].M,
                                         Add3(SumOver(soa.arr["dipoles"].M,
                                                      WrittenFor(soa, before[m], "dipoles")),
                                              SumOver(soa.arr["quadrupoles"].M,
                                                      WrittenFor(soa, before[m], "quadrupoles"))))
                 /\ \A kind \in KindSet : \A j \in SoAIndex :
                       j < soa.arr[kind].num =>
                          Cardinality({mk \in {<<m, k>> : m \in 1..Len(before), k \in 1..MaxSitesPerMol} :
                                          /\ mk[2] <= NumSites(before[mk[1]], kind)
                                          /\ j \in WrittenAt(soa, before[mk[1]], kind, mk[2])}) = 1]_vars

\* postprocessCell has added computed forces and a torque to the second
\* molecule of a cell whose first molecule came with forces and a torque of
\* its own, which it still carries under what was added.
C11_Witness ==
    /\ lastOp.op = "postprocessCell"
    /\ LET molecules == cells[lastOp.a].molecules
       IN  /\ Len(molecules) = 2
           /\ molecules[1].componentid = 1 /\ molecules[2].componentid = 2
           /\ molecules[1].F["charges"][2] \notin {Zero3, <<1, 2, 3>>}
           /\ molecules[1].M \notin {Zero3, <<4, 5, 6>>}
           /\ molecules[2].F["ljc"][1] # Zero3
           /\ molecules[2].M # Zero3

\* The step taken is endTraversal.
EndsTraversal == nCalls < MaxCalls /\ lastOp'.op = "endTraversal"

\* C19 as stated: the conversion from 6 U to U comes after the reduction
\* across the ranks, so the local potential endTraversal hands to the domain
\* holds the LJ part as the unconverted sixfold sum.
C19_Original ==
    [][EndsTraversal => _domain'.localUpot = _upot6lj + _upotXpoles + _myRF]_vars

\* C19: endTraversal converts on the rank, before any reduction: the local
\* potential it hands to the domain is _upot6lj / 6 + _upotXpoles + _myRF,
\* the local virial _virial + 3 _myRF, and the four sums stay as they are.
C19_ConvertedLocally ==
    [][EndsTraversal =>
          /\ _domain'.localUpot = Quot(_upot6lj, 6) + _upotXpoles + _myRF
          /\ _domain'.localVirial = _virial + 3 * _myRF
          /\ UNCHANGED <<_upot6lj, _upotXpoles, _virial, _myRF>>]_vars

\* endTraversal after a traversal that accumulated a LJ potential.
C19_Witness ==
    /\ lastOp.op = "endTraversal"
    /\ _upot6lj # 0
    /\ _domain.localUpot = Quot(_upot6lj, 6) + _upotXpoles + _myRF
    /\ _domain.localUpot # _upot6lj + _upotXpoles + _myRF

\* The runs of _calculatePairs the two entry points make on the
\* preprocessed cells: processCell on a cell whose pairs are computed,
\* processCellPair on two cells whose pairs are computed.
PairRuns ==
    {run \in [a : CellIds, b : CellIds, CalculateMacroscopic : BOOLEAN] :
        /\ cells[run.a].getCellDataSoA # 0
        /\ cells[run.b].getCellDataSoA # 0
        /\ IF run.a = run.b
           THEN processCellBranch(cells[run.a]) /\ run.CalculateMacroscopic
           ELSE LET branch == processCellPairBranch(cells[run.a], cells[run.b])
                IN  branch.run /\ branch.CalculateMacroscopic = run.CalculateMacroscopic}

RunPolicy(run) == IF run.a = run.b THEN "SingleCellPolicy_" ELSE "CellPairPolicy_"

RunStart(run) ==
    PairsStart(soas[cells[run.a].getCellDataSoA], soas[cells[run.b].getCellDataSoA], run.a = run.b)

\* The states of a run in the iteration for source molecule i that starts
\* in st: after the four lookups, then after each of the blocks.
RECURSIVE BlockTrace(_, _, _)
BlockTrace(tr, run, i) ==
    IF Len(tr) > Len(Blocks) THEN tr
    ELSE BlockTrace(Append(tr, RunBlock(tr[Len(tr)], RunPolicy(run), run.CalculateMacroscopic,
                                        Blocks[Len(tr)], i)),
                    run, i)

IterationTrace(st, run, i) ==
    BlockTrace(<<StoreLookups(st, Lookups(st, RunPolicy(run), i))>>, run, i)

\* The run the last call made, if it made one.
LastRuns ==
    {run \in PairRuns : /\ lastOp.op \in {"processCell", "processCellPair"}
                        /\ lastOp.ForcePolicy # "none"
                        /\ run.a = lastOp.a /\ run.b = lastOp.b}

\* The kind of site each running source index counts.
IndexKind ==
    PerIndex([n \in IndexNames |->
        IF n = "i_ljc_idx" THEN "ljc"
        ELSE IF n \in {"i_charge_idx", "i_charge_dipole_idx", "i_charge_quadrupole_idx"} THEN "charges"
        ELSE IF n \in {"i_dipole_idx", "i_dipole_charge_idx", "i_dipole_quadrupole_idx"} THEN "dipoles"
        ELSE "quadrupoles"])

\* The sites of a kind in the molecules 0..i of a slab.
RECURSIVE SitesUpTo(_, _, _)
SitesUpTo(soa, kind, i) ==
    IF i < 0 THEN 0 ELSE soa._mol_num_of[kind][i + 1] + SitesUpTo(soa, kind, i - 1)

\* What a state of a run holds besides the running indices: the two slabs
\* with their force and torque accumulators and the four vector sums.
RunAccumulators(st) ==
    [soa1 |-> st.soa1, soa2 |-> st.soa2, sum_upot6lj |-> st.sum_upot6lj,
     sum_upotXpoles |-> st.sum_upotXpoles, sum_virial |-> st.sum_virial,
     sum_myRF |-> st.sum_myRF]

\* What C24 says of the iteration for source molecule i that starts in st.
IterationAsClaimed(st, run, i) ==
    LET tr == IterationTrace(st, run, i)
        after == SourceMolecule(st, RunPolicy(run), run.CalculateMacroscopic, i)
    IN  /\ tr[Len(tr)] = after
        /\ \A k \in 1..Len(Blocks) :
              ~tr[k].compute_molecule[Blocks[k].kind] =>
                  /\ RunAccumulators(tr[k + 1]) = RunAccumulators(tr[k])
                  /\ ~st.same =>
                        /\ after.soa2.arr[Blocks[k].kind].f = st.soa2.arr[Blocks[k].kind].f
                        /\ after.soa2.arr[Blocks[k].kind].M = st.soa2.arr[Blocks[k].kind].M
        /\ \A n \in IndexNames : after.idx[n] = SitesUpTo(st.soa1, IndexKind[n], i)

\* The same of the iterations i, i + 1, ... of a run, the first starting in st.
RECURSIVE IterationsAsClaimed(_, _, _)
IterationsAsClaimed(st, run, i) ==
    i < st.soa1._mol_num =>
        /\ IterationAsClaimed(st, run, i)
        /\ IterationsAsClaimed(SourceMolecule(st, RunPolicy(run), run.CalculateMacroscopic, i),
                               run, i + 1)

\* C24: in every run of _calculatePairs, for every source molecule i, a
\* block whose early-out predicate is false changes no accumulator (and
\* where soa2 is another slab, the whole iteration leaves soa2's forces and
\* torques of that kind alone), and after the iteration each of the ten
\* running source indices equals the number of sites of its kind in the
\* molecules 0..i of soa1.
C24_SkippedBlocksAndIndices ==
    \A run \in LastRuns : IterationsAsClaimed(RunStart(run), run, 0)

\* A source molecule that is not the first, with charges and dipoles in
\* different numbers, for which one block is skipped and another computed.
RECURSIVE SkipsAndComputes(_, _, _)
SkipsAndComputes(st, run, i) ==
    /\ i < st.soa1._mol_num
    /\ \/ /\ i > 0
          /\ st.soa1._mol_num_of["charges"][i + 1] # st.soa1._mol_num_of["dipoles"][i + 1]
          /\ LET looked == StoreLookups(st, Lookups(st, RunPolicy(run), i))
             IN  /\ \E kind \in KindSet : ~looked.compute_molecule[kind]
                 /\ \E kind \in KindSet : looked.compute_molecule[kind]
       \/ SkipsAndComputes(SourceMolecule(st, RunPolicy(run), run.CalculateMacroscopic, i),
                           run, i + 1)

\* The last call ran _calculatePairs and met such a source molecule.
C24_Witness == \E run \in LastRuns : SkipsAndComputes(RunStart(run), run, 0)

\* The pairs of a source site and a target lane that a loop of the
\* iteration for source molecule i hands to its pair routine with a set
\* mask: the lanes from InitJ to the rounded-up end whose lookup entry is set.
LoopInteractions(st, ForcePolicy, L, i) ==
    LET tgt == Soa2(st).arr[L.tgt]
        j0(local_i) == InitJ(ForcePolicy, st.idx[L.initIdx] + (IF L.perSite THEN local_i ELSE 0))
    IN  {[i |-> i, src |-> L.src, si |-> st.idx[L.srcIdx] + p[1], tgt |-> L.tgt, j |-> p[2]] :
            p \in {q \in (0..(st.soa1._mol_num_of[L.src][i + 1] - 1)) \X SoAIndex :
                      /\ q[2] >= j0(q[1])
                      /\ q[2] < vcp_ceil_to_vec_size(tgt.num)
                      /\ tgt.dist_lookup[q[2]]}}

\* The same for all loops of the blocks of the iteration that are computed.
IterationInteractions(st, run, i) ==
    LET tr == IterationTrace(st, run, i)
    IN  UNION {LoopInteractions(tr[p[1]], RunPolicy(run), Blocks[p[1]].loops[p[2]], i) :
                 p \in {q \in (1..Len(Blocks)) \X (1..3) :
                           /\ q[2] <= Len(Blocks[q[1]].loops)
                           /\ tr[q[1]].compute_molecule[Blocks[q[1]].kind]}}

\* The same for the iterations i, i + 1, ... of a run.
RECURSIVE Interactions(_, _, _)
Interactions(st, run, i) ==
    IF i < st.soa1._mol_num
    THEN IterationInteractions(st, run, i)
         \cup Interactions(SourceMolecule(st, RunPolicy(run), run.CalculateMacroscopic, i), run, i + 1)
    ELSE {}

\* The sites of a kind of molecule m of a slab, and the molecule of a site.
SitesOf(soa, kind, m) ==
    {s \in SoAIndex : SitesUpTo(soa, kind, m - 1) <= s /\ s < SitesUpTo(soa, kind, m)}

MoleculeOf(soa, kind, s) == CHOOSE m \in 0..(soa._mol_num - 1) : s \in SitesOf(soa, kind, m)

\* The combinations of site kinds that have a pair routine, in both orders.
KindCombinations ==
    {c \in KindSet \X KindSet :
        \E k \in 1..Len(Blocks) : \E n \in 1..Len(Blocks[k].loops) :
            LET L == Blocks[k].loops[n]
            IN  c = <<L.src, L.tgt>> \/ c = <<L.tgt, L.src>>}

\* The cutoff that applies to a combination of kinds.
CutoffOf(c) == IF c = <<"ljc", "ljc">> THEN _LJCutoffRadiusSquare ELSE _cutoffRadiusSquare

\* An interaction is one of site s1 of kind c[1] with site s2 of kind c[2].
Pairs(x, c, s1, s2) ==
    \/ x.src = c[1] /\ x.si = s1 /\ x.tgt = c[2] /\ x.j = s2
    \/ x.src = c[2] /\ x.si = s2 /\ x.tgt = c[1] /\ x.j = s1

\* The processCell calls that ran _calculatePairs.
LastCellRuns == {run \in LastRuns : run.a = run.b}

\* C25: in processCell, every two different molecules a < b of the cell
\* within the cutoff interact exactly once for every combination of site
\* kinds, each site of the one with each site of the other, and no site
\* interacts with a site of its own molecule or with itself.
C25_EveryPairOnce ==
    \A run \in LastCellRuns :
        LET soa == RunStart(run).soa1
            done == Interactions(RunStart(run), run, 0)
            mols == 0..(soa._mol_num - 1)
        IN  /\ \A a, b \in mols : \A c \in KindCombinations :
                  (a < b /\ vcp_simd_scalProd(Sub3(soa._mol_pos[a + 1], soa._mol_pos[b + 1]),
                                              Sub3(soa._mol_pos[a + 1], soa._mol_pos[b + 1]))
                               < CutoffOf(c)) =>
                      \A s1 \in SitesOf(soa, c[1], a) : \A s2 \in SitesOf(soa, c[2], b) :
                          Cardinality({x \in done : Pairs(x, c, s1, s2)}) = 1
            /\ \A x \in done :
                  /\ x.j < soa.arr[x.tgt].num
                  /\ MoleculeOf(soa, x.src, x.si) # MoleculeOf(soa, x.tgt, x.j)

\* What does hold: no site interacts with a site of its own molecule or
\* with itself, and no two sites interact more than once.
C25_NeverWithinMoleculeNeverTwice ==
    \A run \in LastCellRuns :
        LET soa == RunStart(run).soa1
            done == Interactions(RunStart(run), run, 0)
        IN  /\ \A x \in done :
                  /\ x.j < soa.arr[x.tgt].num
                  /\ MoleculeOf(soa, x.src, x.si) # MoleculeOf(soa, x.tgt, x.j)
            /\ \A x, y \in done :
                  Pairs(x, <<y.src, y.tgt>>, y.si, y.j) => x = y

(***************************************************************************)
(* Specification SpecRanks: one pair of molecules on two ranks             *)
(***************************************************************************)
\* Largest local cell index of a rank.
MaxCellIndex == 2

Ranks == {"A", "B"}

\* The two molecules: the first is owned by rank A, the second by rank B;
\* each rank holds the other's molecule as a copy in a halo cell.
RankMolecules == <<Molecule(0, <<0, 0, 0>>, Ex), Molecule(0, <<1, 0, 0>>, Ex)>>

\* The slabs of the four cells after preprocessCell: A's owned cell, A's
\* halo cell, B's owned cell, B's halo cell.
RankSlabs ==
    << preprocessSoA(NewCellDataSoA, <<RankMolecules[1]>>),
       preprocessSoA(NewCellDataSoA, <<RankMolecules[2]>>),
       preprocessSoA(NewCellDataSoA, <<RankMolecules[2]>>),
       preprocessSoA(NewCellDataSoA, <<RankMolecules[1]>>) >>

\* The owned and the halo cell of a rank with their local cell indices.
RankCells(first, ownedIndex, haloIndex) ==
    [owned |-> [isHaloCell |-> FALSE, getCellIndex |-> ownedIndex, getCellDataSoA |-> first],
     halo |-> [isHaloCell |-> TRUE, getCellIndex |-> haloIndex, getCellDataSoA |-> first + 1]]

InitRanks ==
    /\ vecType \in {"NOVEC", "SSE3", "AVX"}
    /\ cells = << >>
    /\ soas = RankSlabs
    /\ _particleCellDataVector = << >>
    /\ _upot6lj = 0 /\ _upotXpoles = 0 /\ _virial = 0 /\ _myRF = 0
    /\ lastOp = NoOp
    /\ nCalls = 0
    /\ budget = 0
    /\ dl = Off
    /\ lb = Off
    /\ AroundOff
    /\ \E oA, hA, oB, hB \in 0..MaxCellIndex, firstA, firstB \in BOOLEAN :
          /\ oA # hA /\ oB # hB
          /\ rk = [on |-> TRUE,
                   cells |-> [A |-> RankCells(1, oA, hA), B |-> RankCells(3, oB, hB)],
                   ownedFirst |-> [A |-> firstA, B |-> firstB],
                   done |-> [A |-> FALSE, B |-> FALSE],
                   sums |-> [A |-> <<0, 0, 0, 0>>, B |-> <<0, 0, 0, 0>>]]

\* The cells a rank's traversal passes to processCellPair, in its order.
FirstCell(r) == IF rk.ownedFirst[r] THEN rk.cells[r].owned ELSE rk.cells[r].halo
SecondCell(r) == IF rk.ownedFirst[r] THEN rk.cells[r].halo ELSE rk.cells[r].owned

\* What a _calculatePairs run leaves on rank r: the two slabs as the loops
\* stored them and the four sums added to the rank's.
RankStorePairs(r, p1, p2, p) ==
    /\ soas' = [soas EXCEPT ![p1] = p.soa1, ![p2] = p.soa2]
    /\ rk' = [rk EXCEPT !.done[r] = TRUE,
                        !.sums[r] = <<@[1] + p.upot6lj, @[2] + p.upotXpoles,
                                      @[3] + p.virial, @[4] + p.myRF>>]

\* Rank r's processor handles its pair of cells: processCellPair(c1, c2) with
\* the rank's own _upot6lj, _upotXpoles, _virial and _myRF.
RankProcessCellPair(r) ==
    /\ rk.on /\ ~rk.done[r]
    /\ LET c1 == FirstCell(r)
           c2 == SecondCell(r)
           branch == processCellPairBranch(c1, c2)
       IN  IF branch.run
           THEN RankStorePairs(r, c1.getCellDataSoA, c2.getCellDataSoA,
                               _calculatePairs("CellPairPolicy_", branch.CalculateMacroscopic,
                                               soas[c1.getCellDataSoA], soas[c2.getCellDataSoA], FALSE))
           ELSE /\ rk' = [rk EXCEPT !.done[r] = TRUE]
                /\ UNCHANGED soas
    /\ UNCHANGED <<vecType, cells, _particleCellDataVector, _upot6lj, _upotXpoles, _virial,
                   _myRF, lastOp, nCalls, budget, dl, lb, aroundVars>>

NextRanks == \E r \in Ranks : RankProcessCellPair(r)

SpecRanks == InitRanks /\ [][NextRanks]_vars

\* Rank r has accumulated the pair into its macroscopic sums.
Counted(r) == rk.sums[r] # <<0, 0, 0, 0>>

BothDone == rk.on /\ rk.done["A"] /\ rk.done["B"]

\* Rank r passes the cell with the smaller local index first.
SmallerFirst(r) == FirstCell(r).getCellIndex < SecondCell(r).getCellIndex

\* The pair is accumulated on exactly one of the two ranks, whatever the
\* local cell indices and the order of the two cells.
C2_Original == BothDone => (Counted("A") # Counted("B"))

\* C2: when both ranks have handled their owned and halo cell, the pair is
\* accumulated on a rank exactly when that rank passed the cell with the
\* smaller local index first, so on exactly one of the two ranks exactly
\* when the two ranks' comparisons of the indices come out differently.
C2_CountedWhereSmallerFirst ==
    BothDone
    => /\ \A r \in Ranks : Counted(r) <=> SmallerFirst(r)
       /\ (Counted("A") # Counted("B")) <=> (SmallerFirst("A") # SmallerFirst("B"))

\* Both ranks pass the owned cell first; on A it has the smaller index, on B
\* the larger: the pair is counted on A only.
C2_Witness ==
    /\ BothDone
    /\ rk.ownedFirst["A"] /\ rk.ownedFirst["B"]
    /\ SmallerFirst("A") /\ ~SmallerFirst("B")
    /\ Counted("A") /\ ~Counted("B")

(***************************************************************************)
(* Specification SpecComm: the neighbour communication schemes of one rank *)
(***************************************************************************)
\* Seconds: deadlockTimeOut of the finalize loops, the first waitCounter.
deadlockTimeOut == 60
firstWaitCounter == 1

\* The seconds one pass of a finalize loop may take, and the waiting time up
\* to which the loops are followed.
LoopSeconds == {0, 1, 60, 61}
MaxWaitingTime == 61

\* The rank of the process and the id of a molecule it owns near a boundary.
OwnRank == 0
OwnId == 1

MessageTypes == {"LEAVING_AND_HALO_COPIES", "LEAVING_ONLY", "HALO_COPIES"}

\* A CommunicationPartner: its rank, the molecule ids it sends, the flags of
\* its send and receive requests.  stuck names the request that never
\* completes: "send", "probe", "recv" or "none".
CommunicationPartner(rank, ids, stuck) ==
    [rank |-> rank, ids |-> ids, stuck |-> stuck,
     sendPosted |-> FALSE, _msgSent |-> FALSE, _countReceived |-> FALSE, _msgReceived |-> FALSE]

\* CommunicationPartner::initSend: the send request is posted.
initSend(p) == [p EXCEPT !.sendPosted = TRUE]

\* CommunicationPartner::testSend: MPI_Test on the send request, which may
\* succeed (mpiFlag) once the request is posted.
testSend(p, mpiFlag) ==
    [p EXCEPT !._msgSent = @ \/ (p.sendPosted /\ mpiFlag /\ p.stuck # "send")]

\* CommunicationPartner::iprobeCount: MPI_Iprobe, then the receive is posted.
iprobeCount(p, mpiFlag) ==
    [p EXCEPT !._countReceived = @ \/ (mpiFlag /\ p.stuck # "probe")]

\* CommunicationPartner::testRecv: MPI_Test on the receive request; when it
\* completes the molecules are unpacked into the container.
testRecv(p, mpiFlag) ==
    [p EXCEPT !._msgReceived = @ \/ (p._countReceived /\ mpiFlag /\ p.stuck # "recv")]

\* What unpacking a message adds to the halo cells: with removeRecvDuplicates
\* only the molecules whose id the halo does not hold yet.
RECURSIVE Unpack(_, _, _)
Unpack(halo, ids, removeRecvDuplicates) ==
    IF ids = << >> THEN halo
    ELSE Unpack(IF removeRecvDuplicates /\ \E k \in 1..Len(halo) : halo[k] = ids[1]
                THEN halo ELSE Append(halo, ids[1]),
                Tail(ids), removeRecvDuplicates)

\* The sequential version for dimension d: the calls made for a message type.
LocalCalls(msgType, d) ==
    CASE msgType = "LEAVING_AND_HALO_COPIES" ->
            << <<"handleDomainLeavingParticles", d>>, <<"populateHaloLayerWithCopies", d>> >>
      [] msgType = "LEAVING_ONLY" -> << <<"handleDomainLeavingParticles", d>> >>
      [] msgType = "HALO_COPIES" -> << <<"populateHaloLayerWithCopies", d>> >>

\* halo is one halo cell beyond the x boundary: populateHaloLayerWithCopies
\* for dimension 0 puts a periodic copy of the rank's boundary molecule there.
LocalHalo(halo, msgType, d) ==
    IF msgType # "LEAVING_ONLY" /\ d = 0 THEN Append(halo, OwnId) ELSE halo

Dims == 0..2

\* The schemes, their neighbour lists and what the caller passes.
CommScenarios ==
    { [scheme |-> "3Stage", covers |-> <<FALSE, FALSE, FALSE>>, msgType |-> "LEAVING_AND_HALO_COPIES",
       removeRecvDuplicates |-> TRUE,
       neighbours |-> << <<CommunicationPartner(1, <<7>>, "none"), CommunicationPartner(2, <<8>>, "none")>>,
                         <<CommunicationPartner(3, <<9>>, "recv")>>,
                         <<CommunicationPartner(4, << >>, "none")>> >>] }
    \cup
    { [scheme |-> "3Stage", covers |-> <<TRUE, FALSE, TRUE>>, msgType |-> sc[1],
       removeRecvDuplicates |-> FALSE,
       neighbours |-> << <<CommunicationPartner(OwnRank, << >>, "none")>>,
                         <<CommunicationPartner(1, <<7>>, sc[2])>>,
                         << >> >>] :
         sc \in (MessageTypes \X {"none"}) \cup {<<"LEAVING_ONLY", "send">>} }
    \cup
    { [scheme |-> "1Stage", covers |-> <<FALSE, FALSE, FALSE>>, msgType |-> "HALO_COPIES",
       removeRecvDuplicates |-> TRUE,
       neighbours |-> << <<CommunicationPartner(1, <<7>>, "none"), CommunicationPartner(2, <<8>>, "probe")>>,
                         << >>, << >> >>] }
    \cup
    { [scheme |-> "1Stage", covers |-> <<TRUE, FALSE, FALSE>>, msgType |-> sc[1],
       removeRecvDuplicates |-> sc[2],
       neighbours |-> << <<CommunicationPartner(OwnRank, <<OwnId>>, "none"),
                           CommunicationPartner(1, <<OwnId, 7>>, "none")>>,
                         << >>, << >> >>] :
         sc \in MessageTypes \X BOOLEAN }
    \cup
    { [scheme |-> "1Stage", covers |-> <<TRUE, TRUE, TRUE>>, msgType |-> "LEAVING_AND_HALO_COPIES",
       removeRecvDuplicates |-> TRUE,
       neighbours |-> << <<CommunicationPartner(OwnRank, <<OwnId>>, "none"),
                           CommunicationPartner(OwnRank, <<OwnId>>, "none")>>,
                         << >>, << >> >>] }

\* getCommDims(): the stages of a scheme.
getCommDims(scheme) == IF scheme = "3Stage" THEN 3 ELSE 1

InitComm ==
    /\ \E sc \in CommScenarios :
          nc = [on |-> TRUE, scheme |-> sc.scheme, _coversWholeDomain |-> sc.covers,
                msgType |-> sc.msgType, removeRecvDuplicates |-> sc.removeRecvDuplicates,
                _neighbours |-> sc.neighbours,
                pc |-> "init", d |-> 0,
                local |-> << >>, halo |-> << >>,
                waitingTime |-> 0, waitCounter |-> firstWaitCounter,
                removeFlag |-> sc.removeRecvDuplicates,
                warned |-> FALSE, diagnosed |-> << >>, finalized |-> {}]
    /\ vecType = "NOVEC"
    /\ cells = << >> /\ soas = << >> /\ _particleCellDataVector = << >>
    /\ _upot6lj = 0 /\ _upotXpoles = 0 /\ _virial = 0 /\ _myRF = 0
    /\ lastOp = NoOp /\ nCalls = 0 /\ budget = 0
    /\ dl = Off /\ lb = Off /\ rk = Off
    /\ _domain = NoDomain /\ sim = Off /\ hs = Off /\ gen = Off
    /\ LaterOff

commOthers == <<vecType, processorVars, dl, lb, rk, _domain, sim, hs, gen, laterVars>>

\* A scheme that talks to every partner of its list.
Talks_toItself(scheme, p) == TRUE

\* The partners a scheme talks to in stage d: the one-stage scheme leaves
\* out those with the rank of the process itself.
Talks(scheme, p) == scheme = "3Stage" \/ p.rank # OwnRank

\* The sequential handling of the covered dimensions d, d + 1, ..., 2 of the
\* one-stage scheme: the calls and the halo afterwards.
RECURSIVE LocalFrom(_, _, _, _)
LocalFrom(covers, msgType, d, st) ==
    IF d > 2 THEN st
    ELSE LocalFrom(covers, msgType, d + 1,
                   IF covers[d + 1]
                   THEN [local |-> st.local \o LocalCalls(msgType, d), halo |-> LocalHalo(st.halo, msgType, d)]
                   ELSE st)

\* NeighbourCommunicationScheme1Stage::initExchangeMoleculesMPI
initExchangeMoleculesMPI ==
    /\ nc.on /\ nc.scheme = "1Stage" /\ nc.pc = "init"
    /\ LET st == LocalFrom(nc._coversWholeDomain, nc.msgType, 0, [local |-> nc.local, halo |-> nc.halo])
           L == nc._neighbours[1]
       IN  nc' = [nc EXCEPT !.local = st.local, !.halo = st.halo,
                            !._neighbours[1] =
                                [i \in 1..Len(L) |-> IF L[i].rank # OwnRank THEN initSend(L[i]) ELSE L[i]],
                            !.pc = "finalize"]
    /\ UNCHANGED commOthers

\* NeighbourCommunicationScheme3Stage::initExchangeMoleculesMPI1D for stage d
initExchangeMoleculesMPI1D ==
    /\ nc.on /\ nc.scheme = "3Stage" /\ nc.pc = "init"
    /\ LET d == nc.d
           L == nc._neighbours[d + 1]
       IN  IF nc._coversWholeDomain[d + 1]
           THEN nc' = [nc EXCEPT !.local = @ \o LocalCalls(nc.msgType, d),
                                 !.halo = LocalHalo(@, nc.msgType, d),
                                 !.pc = "finalize"]
           ELSE nc' = [nc EXCEPT !._neighbours[d + 1] = [i \in 1..Len(L) |-> initSend(L[i])],
                                 !.pc = "finalize"]
    /\ UNCHANGED commOthers

\* What follows the return of a finalize: its locals are gone, and the next
\* stage of exchangeMoleculesMPI or its end comes.
Returned(n) ==
    LET r == [n EXCEPT !.finalized = @ \cup {n.d},
                       !.waitingTime = 0, !.waitCounter = firstWaitCounter,
                       !.warned = FALSE, !.diagnosed = << >>]
    IN  IF n.d + 1 < getCommDims(n.scheme)
        THEN [r EXCEPT !.d = n.d + 1, !.pc = "init"]
        ELSE [r EXCEPT !.pc = "done"]

\* A finalize that returns without entering its loop.
finalizeEntry_returnsAtOnce ==
    /\ nc.on /\ nc.pc = "finalize"
    /\ nc' = Returned(nc)
    /\ UNCHANGED commOthers

\* The entry of finalizeExchangeMoleculesMPI and finalizeExchangeMoleculesMPI1D
\* up to the loop: the three-stage scheme returns at once for a covered
\* dimension; the one-stage scheme and-s removeRecvDuplicates with
\* _coversWholeDomain[d] for d = 0, 1, 2.
finalizeEntry ==
    /\ nc.on /\ nc.pc = "finalize"
    /\ IF nc.scheme = "3Stage" /\ nc._coversWholeDomain[nc.d + 1]
       THEN nc' = Returned(nc)
       ELSE nc' = [nc EXCEPT
                      !.waitingTime = 0, !.waitCounter = firstWaitCounter,
                      !.warned = FALSE, !.diagnosed = << >>,
                      !.removeFlag =
                          IF nc.scheme = "1Stage"
                          THEN nc.removeRecvDuplicates /\ nc._coversWholeDomain[1]
                               /\ nc._coversWholeDomain[2] /\ nc._coversWholeDomain[3]
                          ELSE nc.removeRecvDuplicates,
                      !.pc = "loop"]
    /\ UNCHANGED commOthers

\* The three passes of one iteration over the partners: testSend,
\* iprobeCount, testRecv, with the outcomes of the MPI calls.
Tested(scheme, L, mpi) ==
    [i \in 1..Len(L) |->
        IF Talks(scheme, L[i])
        THEN testRecv(iprobeCount(testSend(L[i], mpi[i][1]), mpi[i][2]), mpi[i][3])
        ELSE L[i]]

\* The molecules of the messages whose receive completed in this iteration,
\* unpacked in the order of the partners.
RECURSIVE Unpacked(_, _, _, _, _)
Unpacked(halo, L, L1, i, removeRecvDuplicates) ==
    IF i > Len(L) THEN halo
    ELSE Unpacked(IF L1[i]._msgReceived /\ ~L[i]._msgReceived
                  THEN Unpack(halo, L[i].ids, removeRecvDuplicates) ELSE halo,
                  L, L1, i + 1, removeRecvDuplicates)

\* One pass of deadlockDiagnosticSendRecv over the partners talked to: the
\* ranks it is called for, in order.
RECURSIVE Diagnosed(_, _, _)
Diagnosed(scheme, L, i) ==
    IF i > Len(L) THEN << >>
    ELSE (IF Talks(scheme, L[i]) THEN <<L[i].rank>> ELSE << >>) \o Diagnosed(scheme, L, i + 1)

\* allDone that looks at the sends only.
AllDone_sendsOnly(scheme, L) ==
    \A i \in 1..Len(L) : Talks(scheme, L[i]) => L[i]._msgSent

\* allDone after the three passes.
AllDone(scheme, L) ==
    \A i \in 1..Len(L) :
        Talks(scheme, L[i]) => (L[i]._msgSent /\ L[i]._countReceived /\ L[i]._msgReceived)

\* One iteration of "while (not allDone)" of either finalize, in which the
\* MPI calls have the outcomes mpi and which takes the given seconds.
finalizePass(mpi, seconds) ==
    LET L == nc._neighbours[nc.d + 1]
        L1 == Tested(nc.scheme, L, mpi)
        allDone == AllDone(nc.scheme, L1)
        waitingTime == nc.waitingTime + seconds
        warn == waitingTime > nc.waitCounter
        exit == waitingTime > deadlockTimeOut
        n1 == [nc EXCEPT
                  !._neighbours[nc.d + 1] = L1,
                  !.diagnosed = (IF warn THEN Diagnosed(nc.scheme, L1, 1) ELSE << >>)
                                \o (IF exit THEN Diagnosed(nc.scheme, L1, 1) ELSE << >>),
                  !.halo = Unpacked(@, L, L1, 1, nc.removeFlag),
                  !.waitingTime = waitingTime,
                  !.waitCounter = IF warn THEN @ + 1 ELSE @,
                  !.warned = warn]
    IN  /\ nc' = IF exit THEN [n1 EXCEPT !.pc = "exited"]
                 ELSE IF allDone THEN Returned(n1)
                 ELSE n1
        /\ UNCHANGED commOthers

\* One iteration of "while (not allDone)" of either finalize.
finalizeIteration ==
    /\ nc.on /\ nc.pc = "loop"
    /\ \E mpi \in [1..Len(nc._neighbours[nc.d + 1]) -> BOOLEAN \X BOOLEAN \X BOOLEAN],
          seconds \in {s \in LoopSeconds : nc.waitingTime + s <= MaxWaitingTime} :
          finalizePass(mpi, seconds)

NextComm ==
    \/ initExchangeMoleculesMPI
    \/ initExchangeMoleculesMPI1D
    \/ finalizeEntry
    \/ finalizeIteration

SpecComm == InitComm /\ [][NextComm]_vars

\* The elements of a sequence.
Range(q) == {q[k] : k \in 1..Len(q)}

\* Stage e of the exchange is complete in n: a covered dimension was handled
\* locally; otherwise every neighbour's send and receive tested complete and
\* its molecules are in the container.
StageComplete(n, e) ==
    IF n._coversWholeDomain[e + 1]
    THEN Range(LocalCalls(n.msgType, e)) \subseteq Range(n.local)
    ELSE \A p \in Range(n._neighbours[e + 1]) :
            p._msgSent /\ p._msgReceived /\ Range(p.ids) \subseteq Range(n.halo)

\* A send of stage e is posted in the step from n to n1.
PostsSend(n, n1, e) ==
    \E i \in 1..Len(n._neighbours[e + 1]) :
        n1._neighbours[e + 1][i].sendPosted /\ ~n._neighbours[e + 1][i].sendPosted

\* C12: the three-stage exchangeMoleculesMPI goes through d = 0, 1, 2 in this
\* order, and a send of a stage is posted only in that stage and only after
\* every earlier stage was finalized: each neighbour's send and receive
\* tested complete and its molecules unpacked, or the covered dimension
\* handled locally.
C12_StagesInOrder ==
    [][(nc.on /\ nc.scheme = "3Stage") =>
          /\ nc'.d = nc.d \/ (nc'.d = nc.d + 1 /\ nc.d \in nc'.finalized)
          /\ \A e \in Dims :
                PostsSend(nc, nc', e) =>
                   /\ nc.d = e
                   /\ \A b \in 0..(e - 1) : b \in nc.finalized /\ StageComplete(nc, b)]_vars

\* Stage 1 has posted its send after stage 0 went over the network.
C12_Witness ==
    /\ nc.on /\ nc.scheme = "3Stage" /\ nc.d = 1
    /\ ~nc._coversWholeDomain[1] /\ ~nc._coversWholeDomain[2]
    /\ \E p \in Range(nc._neighbours[2]) : p.sendPosted
    /\ StageComplete(nc, 0)


\* The local handling of dimension d the claim asks for, by message type.
LocalHandling(n, d) ==
    IF ~n._coversWholeDomain[d + 1] THEN << >>
    ELSE IF n.msgType = "LEAVING_ONLY" THEN << <<"handleDomainLeavingParticles", d>> >>
    ELSE IF n.msgType = "HALO_COPIES" THEN << <<"populateHaloLayerWithCopies", d>> >>
    ELSE << <<"handleDomainLeavingParticles", d>>, <<"populateHaloLayerWithCopies", d>> >>

\* C13: a dimension the subdomain covers is exchanged locally, without
\* network traffic.  Three-stage scheme: the stage makes the local calls,
\* posts no send, and its finalize returns without a pass of the loop.
\* One-stage scheme: the init makes the local calls of the covered
\* dimensions, and no step touches a partner with the own rank.  The calls
\* are handleDomainLeavingParticles alone for LEAVING_ONLY,
\* populateHaloLayerWithCopies alone for HALO_COPIES, and the first before
\* the second for LEAVING_AND_HALO_COPIES.
C13_CoveredIsLocal ==
    [][nc.on =>
          /\ (nc.scheme = "3Stage" /\ nc._coversWholeDomain[nc.d + 1]) =>
                /\ nc'._neighbours = nc._neighbours
                /\ nc.pc = "init" => nc'.local = nc.local \o LocalHandling(nc, nc.d)
                /\ nc.pc = "finalize" => (nc'.pc \in {"init", "done"} /\ nc.d \in nc'.finalized)
                /\ nc'.pc # "loop"
          /\ nc.scheme = "1Stage" =>
                /\ nc.pc = "init" =>
                      nc'.local = nc.local \o LocalHandling(nc, 0) \o LocalHandling(nc, 1)
                                           \o LocalHandling(nc, 2)
                /\ \A i \in 1..Len(nc._neighbours[1]) :
                      nc._neighbours[1][i].rank = OwnRank =>
                         /\ nc'._neighbours[1][i] = nc._neighbours[1][i]
                         /\ ~nc._neighbours[1][i].sendPosted
                         /\ ~nc._neighbours[1][i]._countReceived]_vars

\* The one-stage exchange is over with the local calls made, the partner of
\* another rank complete and the partner with the own rank never talked to;
\* or the three-stage exchange is over with two dimensions handled locally.
C13_Witness ==
    /\ nc.on /\ nc.pc = "done" /\ nc.msgType = "LEAVING_AND_HALO_COPIES"
    /\ \/ /\ nc.scheme = "1Stage"
          /\ nc.local = << <<"handleDomainLeavingParticles", 0>>, <<"populateHaloLayerWithCopies", 0>> >>
          /\ \E p, q \in Range(nc._neighbours[1]) :
                /\ p.rank = OwnRank /\ ~p.sendPosted /\ ~p._msgReceived
                /\ q.rank # OwnRank /\ q._msgSent /\ q._msgReceived
       \/ /\ nc.scheme = "3Stage"
          /\ Len(nc.local) = 4
          /\ \E q \in Range(nc._neighbours[2]) : q._msgSent /\ q._msgReceived


\* C14: one-stage scheme, the subdomain covers the whole domain in at least
\* one dimension and the caller passes removeRecvDuplicates = true: the
\* received molecules are unpacked with duplicate removal enabled, and the
\* halo cell holds no id twice.
C14_DuplicatesRemoved ==
    (/\ nc.on /\ nc.scheme = "1Stage" /\ nc.removeRecvDuplicates
     /\ \E d \in Dims : nc._coversWholeDomain[d + 1]
     /\ nc.pc \in {"loop", "done", "exited"})
    => /\ nc.removeFlag
       /\ \A j, k \in 1..Len(nc.halo) : j # k => nc.halo[j] # nc.halo[k]


\* The neighbours of the current stage that the scheme talks to and that
\* never complete.
NeverComplete(n) ==
    {p \in Range(n._neighbours[n.d + 1]) : Talks(n.scheme, p) /\ p.stuck # "none"}

\* C15: with a neighbour of another rank that never completes, a pass of the
\* finalize loop of either scheme never ends in a normal return.  The pass
\* in which the waiting time exceeds 60 s calls deadlockDiagnosticSendRecv
\* for every such neighbour and then exits with 457, and no pass exits
\* before.  Every earlier pass in which the waiting time passes a further
\* whole second issues a warning with the diagnostics of the neighbours, and
\* no pass issues more than one warning.
C15_DeadlockExit ==
    [][(nc.on /\ nc.pc = "loop" /\ NeverComplete(nc) # {}) =>
          /\ nc'.pc \in {"loop", "exited"}
          /\ nc'.pc = "exited" <=> nc'.waitingTime > 60
          /\ nc'.pc = "exited" => \A p \in NeverComplete(nc) : p.rank \in Range(nc'.diagnosed)
          /\ nc'.pc = "loop" =>
                /\ (nc.waitingTime < nc'.waitingTime /\ nc'.waitingTime >= 2) =>
                      /\ nc'.warned /\ nc'.waitCounter = nc.waitCounter + 1
                      /\ \A p \in NeverComplete(nc) : p.rank \in Range(nc'.diagnosed)
                /\ nc'.waitCounter \in {nc.waitCounter, nc.waitCounter + 1}
                /\ nc'.warned <=> nc'.waitCounter = nc.waitCounter + 1
                /\ ~nc'.warned => nc'.diagnosed = << >>]_vars

\* The exit after warnings, with a neighbour that never completes: in the
\* one-stage and in the three-stage scheme.
C15_Witness ==
    /\ nc.on /\ nc.pc = "exited" /\ NeverComplete(nc) # {}
    /\ nc.waitingTime > 60 /\ nc.waitCounter > 30
    /\ \A p \in NeverComplete(nc) : p.rank \in Range(nc.diagnosed)


\* C16: the exchange is aborted only after the timeout has passed without
\* progress: a pass of a finalize loop in which a neighbour's send, count
\* probe or receive completes does not end in exit(457), however long ago
\* the loop started.
C16_AbortOnlyWithoutProgress ==
    [][(nc.on /\ nc.pc = "loop" /\ nc'.pc = "exited") =>
          nc'._neighbours = nc._neighbours]_vars


(***************************************************************************)
(* Specification SpecFinalize1Stage: the one-stage scheme, with neighbours *)
(* whose requests complete                                                 *)
(***************************************************************************)
InitFinalize1Stage == InitComm /\ nc.scheme = "1Stage"

\* A pass of the loop in which every MPI call reports completion and which
\* takes less than a second.
promptPass ==
    /\ nc.on /\ nc.pc = "loop"
    /\ finalizePass([i \in 1..Len(nc._neighbours[nc.d + 1]) |-> <<TRUE, TRUE, TRUE>>], 0)

NextFinalize1Stage ==
    \/ initExchangeMoleculesMPI
    \/ finalizeEntry
    \/ finalizeIteration

\* The loop is a busy loop, so it keeps making passes; the requests of the
\* neighbours complete at some time, so a pass in which all of them test
\* complete comes.
SpecFinalize1Stage ==
    InitFinalize1Stage /\ [][NextFinalize1Stage]_vars /\ WF_vars(promptPass)

\* The partners of the one-stage scheme with another rank than the own.
OtherRanks(n) == {i \in 1..Len(n._neighbours[1]) : n._neighbours[1][i].rank # OwnRank}

\* C23: the loop of the one-stage finalize returns normally only from a pass
\* in which testSend, iprobeCount and testRecv were true for every neighbour
\* of another rank; neighbours with the own rank are never tested, probed or
\* received from; and when every neighbour of another rank completes at some
\* time, the loop terminates, with a normal return unless the waiting time
\* has passed the timeout.
C23_FinalizeTerminates ==
    /\ [][(nc.on /\ nc.scheme = "1Stage" /\ nc.pc = "loop") =>
             /\ nc'.pc = "done" =>
                   \A i \in OtherRanks(nc) :
                      /\ nc'._neighbours[1][i]._msgSent
                      /\ nc'._neighbours[1][i]._countReceived
                      /\ nc'._neighbours[1][i]._msgReceived
             /\ \A i \in 1..Len(nc._neighbours[1]) \ OtherRanks(nc) :
                   /\ nc'._neighbours[1][i] = nc._neighbours[1][i]
                   /\ ~nc._neighbours[1][i]._msgSent
                   /\ ~nc._neighbours[1][i]._countReceived
                   /\ ~nc._neighbours[1][i]._msgReceived
             /\ nc'.pc = "exited" => nc'.waitingTime > deadlockTimeOut]_vars
    /\ (nc.on /\ nc.scheme = "1Stage" /\ nc.pc = "loop" /\ NeverComplete(nc) = {})
          ~> (nc.pc = "done" \/ (nc.pc = "exited" /\ nc.waitingTime > deadlockTimeOut))

\* The loop has returned before the timeout with a neighbour of another rank
\* complete and a neighbour of the own rank untouched.
C23_Witness ==
    /\ nc.on /\ nc.scheme = "1Stage" /\ nc.pc = "done"
    /\ \E i \in OtherRanks(nc) : nc._neighbours[1][i]._msgReceived
    /\ \E i \in 1..Len(nc._neighbours[1]) \ OtherRanks(nc) : ~nc._neighbours[1][i]._msgSent
    /\ nc.waitingTime = 0


(***************************************************************************)
(* Specification SpecSim: Simulation::simulate                             *)
(***************************************************************************)
\* The largest _numberOfTimesteps followed.
MaxTimesteps == 4

\* Simulation::initialize, call by call.
InitializeCalls ==
    <<"deleteOuterParticles", "exchangeMolecules", "upd_cache", "update", "traversePairs",
      "deleteOuterParticles", "calculateVelocitySums", "calculateGlobalValues", "initOutput">>

\* A loop body that computes the forces before the container is updated.
StepCalls_forcesFirst ==
    <<"eventNewTimestep", "exchangeMolecules", "upd_cache", "traversePairs", "update",
      "deleteOuterParticles", "eventForcesCalculated", "calculateGlobalValues", "scale_v_D",
      "advanceTime", "output">>

\* The body of the main loop of Simulation::simulate, call by call.
StepCalls ==
    <<"eventNewTimestep", "exchangeMolecules", "upd_cache", "update", "traversePairs",
      "deleteOuterParticles", "eventForcesCalculated", "calculateGlobalValues", "scale_v_D",
      "advanceTime", "output">>

\* What follows the main loop.
EndCalls == <<"writeCheckpoint", "finishOutput">>

CallsOf(phase) ==
    CASE phase = "initialize" -> InitializeCalls
      [] phase = "step" -> StepCalls
      [] phase = "end" -> EndCalls
      [] phase = "done" -> << >>

\* simulate() up to the call of initialize(): the molecules as read in,
\* nothing exchanged, cached or sorted into cells yet.
InitSim ==
    /\ \E n \in 0..MaxTimesteps :
          sim = [on |-> TRUE, _numberOfTimesteps |-> n, simstep |-> 1,
                 phase |-> "initialize", at |-> 1, log |-> << >>,
                 exchanged |-> FALSE, cached |-> FALSE, binned |-> FALSE, halo |-> TRUE,
                 forces |-> "none", time |-> 0, outputs |-> 0, steps |-> 0]
    /\ vecType = "NOVEC"
    /\ cells = << >> /\ soas = << >> /\ _particleCellDataVector = << >>
    /\ _upot6lj = 0 /\ _upotXpoles = 0 /\ _virial = 0 /\ _myRF = 0
    /\ lastOp = NoOp /\ nCalls = 0 /\ budget = 0
    /\ dl = Off /\ lb = Off /\ rk = Off
    /\ _domain = NoDomain /\ nc = Off /\ hs = Off /\ gen = Off
    /\ LaterOff

simOthers == <<vecType, processorVars, dl, lb, rk, _domain, nc, hs, gen, laterVars>>

\* The call the simulation is at.
Runs(name) ==
    /\ sim.on /\ sim.phase # "done"
    /\ CallsOf(sim.phase)[sim.at] = name

\* for (simstep = 1; simstep <= _numberOfTimesteps; simstep++): the test.
LoopTest(s) ==
    IF s.simstep <= s._numberOfTimesteps
    THEN [s EXCEPT !.phase = "step", !.at = 1]
    ELSE [s EXCEPT !.phase = "end", !.at = 1]

\* The call has returned: the next call of the function, or what follows
\* the function.  log holds the calls of the function or loop pass, in order.
ReturnFrom(s, name) ==
    LET r == [s EXCEPT !.log = IF s.at = 1 THEN <<name>> ELSE Append(@, name)]
    IN  IF s.at < Len(CallsOf(s.phase)) THEN [r EXCEPT !.at = s.at + 1]
        ELSE IF s.phase = "initialize" THEN LoopTest(r)
        ELSE IF s.phase = "step" THEN LoopTest([r EXCEPT !.simstep = @ + 1, !.steps = @ + 1])
        ELSE [r EXCEPT !.phase = "done", !.at = 1]

\* ParticleContainer::deleteOuterParticles: the halo is cleared.
deleteOuterParticles ==
    /\ Runs("deleteOuterParticles")
    /\ sim' = ReturnFrom([sim EXCEPT !.halo = FALSE], "deleteOuterParticles")
    /\ UNCHANGED simOthers

\* DomainDecompBase::exchangeMolecules: leaving molecules are handed over and
\* halo copies received; the cache of a molecule is not transferred.
exchangeMolecules ==
    /\ Runs("exchangeMolecules")
    /\ sim' = ReturnFrom([sim EXCEPT !.exchanged = TRUE, !.halo = TRUE, !.cached = FALSE],
                      "exchangeMolecules")
    /\ UNCHANGED simOthers

\* The loop calling Molecule::upd_cache for every molecule.
upd_cache ==
    /\ Runs("upd_cache")
    /\ sim' = ReturnFrom([sim EXCEPT !.cached = TRUE], "upd_cache")
    /\ UNCHANGED simOthers

\* ParticleContainer::update: the molecules are sorted into their cells.
update ==
    /\ Runs("update")
    /\ sim' = ReturnFrom([sim EXCEPT !.binned = TRUE], "update")
    /\ UNCHANGED simOthers

\* ParticleContainer::traversePairs: the forces, from what the container
\* holds at the call.
traversePairs ==
    /\ Runs("traversePairs")
    /\ sim' = ReturnFrom([sim EXCEPT !.forces = IF sim.exchanged /\ sim.cached /\ sim.binned /\ sim.halo
                                            THEN "current" ELSE "stale"],
                      "traversePairs")
    /\ UNCHANGED simOthers

\* Integrator::eventNewTimestep: the molecules move.
eventNewTimestep ==
    /\ Runs("eventNewTimestep")
    /\ sim' = ReturnFrom([sim EXCEPT !.exchanged = FALSE, !.cached = FALSE, !.binned = FALSE,
                                  !.forces = "old"],
                      "eventNewTimestep")
    /\ UNCHANGED simOthers

\* Domain::advanceTime
advanceTime ==
    /\ Runs("advanceTime")
    /\ sim' = ReturnFrom([sim EXCEPT !.time = @ + 1], "advanceTime")
    /\ UNCHANGED simOthers

\* Simulation::output(simstep)
output ==
    /\ Runs("output")
    /\ sim' = ReturnFrom([sim EXCEPT !.outputs = @ + 1], "output")
    /\ UNCHANGED simOthers

\* The calls that leave the container and the counters as they are:
\* eventForcesCalculated, calculateVelocitySums, calculateGlobalValues, the
\* scale_v / scale_D loop, initOutput, writeCheckpoint, finishOutput.
OtherCalls ==
    {"eventForcesCalculated", "calculateVelocitySums", "calculateGlobalValues", "scale_v_D",
     "initOutput", "writeCheckpoint", "finishOutput"}

otherCall ==
    /\ \E name \in OtherCalls :
          /\ Runs(name)
          /\ sim' = ReturnFrom(sim, name)
    /\ UNCHANGED simOthers

NextSim ==
    \/ deleteOuterParticles
    \/ exchangeMolecules
    \/ upd_cache
    \/ update
    \/ traversePairs
    \/ eventNewTimestep
    \/ advanceTime
    \/ output
    \/ otherCall

SpecSim == InitSim /\ [][NextSim]_vars

\* C17: in initialize and in every time step, exchangeMolecules, the cache
\* update and the container update have completed when traversePairs starts;
\* a completed step made its calls in the order eventNewTimestep, exchange,
\* cache update, update, traversePairs, deleteOuterParticles,
\* eventForcesCalculated, calculateGlobalValues, velocity scaling,
\* advanceTime, output; and when the loop is over it has run exactly
\* _numberOfTimesteps steps.
C17_StepOrder ==
    sim.on =>
       /\ Runs("traversePairs") =>
             /\ sim.exchanged /\ sim.cached /\ sim.binned
             /\ \E k \in 1..(Len(sim.log) - 2) :
                   /\ sim.log[k] = "exchangeMolecules" /\ sim.log[k + 1] = "upd_cache"
                   /\ sim.log[k + 2] = "update" /\ Len(sim.log) = k + 2
       /\ sim.forces # "stale"
       /\ (sim.steps > 0 /\ sim.at = 1 /\ sim.phase \in {"step", "end"}) =>
             sim.log = <<"eventNewTimestep", "exchangeMolecules", "upd_cache", "update",
                         "traversePairs", "deleteOuterParticles", "eventForcesCalculated",
                         "calculateGlobalValues", "scale_v_D", "advanceTime", "output">>
       /\ sim.phase \in {"end", "done"} =>
             (sim.steps = sim._numberOfTimesteps /\ sim.outputs = sim._numberOfTimesteps)
       /\ sim.steps <= sim._numberOfTimesteps

\* The simulation is over after three steps.
C17_Witness ==
    /\ sim.on /\ sim.phase = "done" /\ sim._numberOfTimesteps = 3 /\ sim.steps = 3
    /\ sim.forces = "current"


(***************************************************************************)
(* Specification SpecHandler:                                              *)
(* NonBlockingMPIMultiStepHandler::performComputation                      *)
(***************************************************************************)
\* The largest getNonBlockingStageCount() followed.
MaxStages == 5

\* performComputation is entered: stageCount is read; ndebug tells whether
\* the build compiles the assert away.
InitHandler ==
    /\ \E stageCount \in 0..MaxStages, ndebug \in BOOLEAN :
          hs = [on |-> TRUE, stageCount |-> stageCount, ndebug |-> ndebug,
                pc |-> "assert", i |-> 0,
                inFlight |-> {}, finished |-> {}, innermost |-> << >>,
                cachesUpdated |-> FALSE, nonInnermost |-> 0, lastCall |-> "none"]
    /\ vecType = "NOVEC"
    /\ cells = << >> /\ soas = << >> /\ _particleCellDataVector = << >>
    /\ _upot6lj = 0 /\ _upotXpoles = 0 /\ _virial = 0 /\ _myRF = 0
    /\ lastOp = NoOp /\ nCalls = 0 /\ budget = 0
    /\ dl = Off /\ lb = Off /\ rk = Off
    /\ _domain = NoDomain /\ nc = Off /\ sim = Off /\ gen = Off
    /\ LaterOff

handlerOthers == <<vecType, processorVars, dl, lb, rk, _domain, nc, sim, gen, laterVars>>

\* i < stageCount: the next pass of the loop, or what follows the loop.
StageTest(h) ==
    IF h.i < h.stageCount THEN [h EXCEPT !.pc = "prepare"] ELSE [h EXCEPT !.pc = "updateCaches"]

\* A loop that prepares the next stage right after the traversal.
AfterTraversal_noFinish(h) == StageTest([h EXCEPT !.i = @ + 1])

\* What follows traversePartialInnermostCells in the loop body.
AfterTraversal(h) == [h EXCEPT !.pc = "finish"]

\* assert(stageCount > 0)
assertStageCount ==
    /\ hs.on /\ hs.pc = "assert"
    /\ hs' = IF hs.stageCount > 0 \/ hs.ndebug
             THEN StageTest([hs EXCEPT !.lastCall = "assert"])
             ELSE [hs EXCEPT !.pc = "aborted", !.lastCall = "assert"]
    /\ UNCHANGED handlerOthers

\* _domainDecomposition->prepareNonBlockingStage(false, ..., i)
prepareNonBlockingStage ==
    /\ hs.on /\ hs.pc = "prepare"
    /\ hs' = [hs EXCEPT !.inFlight = @ \cup {hs.i}, !.pc = "traverse",
                        !.lastCall = "prepareNonBlockingStage"]
    /\ UNCHANGED handlerOthers

\* _moleculeContainer->traversePartialInnermostCells(*_cellProcessor, i, stageCount)
traversePartialInnermostCells ==
    /\ hs.on /\ hs.pc = "traverse"
    /\ hs' = AfterTraversal([hs EXCEPT !.innermost = Append(@, <<hs.i, hs.stageCount>>),
                                       !.lastCall = "traversePartialInnermostCells"])
    /\ UNCHANGED handlerOthers

\* _domainDecomposition->finishNonBlockingStage(false, ..., i), then ++i
finishNonBlockingStage ==
    /\ hs.on /\ hs.pc = "finish"
    /\ hs' = StageTest([hs EXCEPT !.inFlight = @ \ {hs.i}, !.finished = @ \cup {hs.i},
                                  !.i = @ + 1, !.lastCall = "finishNonBlockingStage"])
    /\ UNCHANGED handlerOthers

\* _moleculeContainer->updateBoundaryAndHaloMoleculeCaches()
updateBoundaryAndHaloMoleculeCaches ==
    /\ hs.on /\ hs.pc = "updateCaches"
    /\ hs' = [hs EXCEPT !.cachesUpdated = TRUE, !.pc = "traverseNonInnermost",
                        !.lastCall = "updateBoundaryAndHaloMoleculeCaches"]
    /\ UNCHANGED handlerOthers

\* _moleculeContainer->traverseNonInnermostCells(*_cellProcessor)
traverseNonInnermostCells ==
    /\ hs.on /\ hs.pc = "traverseNonInnermost"
    /\ hs' = [hs EXCEPT !.nonInnermost = @ + 1, !.pc = "done",
                        !.lastCall = "traverseNonInnermostCells"]
    /\ UNCHANGED handlerOthers

NextHandler ==
    \/ assertStageCount
    \/ prepareNonBlockingStage
    \/ traversePartialInnermostCells
    \/ finishNonBlockingStage
    \/ updateBoundaryAndHaloMoleculeCaches
    \/ traverseNonInnermostCells

SpecHandler == InitHandler /\ [][NextHandler]_vars

\* C18: while a stage is in flight the only traversal run is
\* traversePartialInnermostCells(i, stageCount) for that stage; a stage is
\* prepared only when every earlier stage is finished and none is in flight;
\* traverseNonInnermostCells runs once, after finishNonBlockingStage of
\* every stage 0..stageCount-1 and after
\* updateBoundaryAndHaloMoleculeCaches.
C18_StagesAndTraversals ==
    [][hs.on =>
          /\ hs.inFlight # {} =>
                /\ hs.inFlight = {hs.i}
                /\ hs'.lastCall \in {"traversePartialInnermostCells", "finishNonBlockingStage"}
                /\ hs'.nonInnermost = hs.nonInnermost
                /\ hs'.innermost # hs.innermost =>
                      hs'.innermost = Append(hs.innermost, <<hs.i, hs.stageCount>>)
          /\ hs'.inFlight # hs.inFlight /\ hs.inFlight = {} =>
                /\ hs'.inFlight = {hs.i}
                /\ hs.finished = {k \in 0..(hs.stageCount - 1) : k < hs.i}
          /\ hs'.nonInnermost # hs.nonInnermost =>
                /\ hs.nonInnermost = 0 /\ hs'.nonInnermost = 1
                /\ hs.finished = 0..(hs.stageCount - 1)
                /\ hs.inFlight = {}
                /\ hs.cachesUpdated
                /\ Len(hs.innermost) = hs.stageCount]_vars

\* Three stages were overlapped with their inner traversals and the outer
\* traversal has run.
C18_Witness ==
    /\ hs.on /\ hs.pc = "done" /\ hs.stageCount = 3
    /\ hs.innermost = << <<0, 3>>, <<1, 3>>, <<2, 3>> >>
    /\ hs.nonInnermost = 1 /\ hs.finished = {0, 1, 2}


(***************************************************************************)
(* Specification SpecGen: CubicGridGenerator::readPhaseSpace on the ranks  *)
(***************************************************************************)
\* The largest numMoleculesPerDimension followed.
MaxPerDimension == 2

\* Lengths are in quarters of the lattice spacing: the box is
\* 4 * numMoleculesPerDimension long, the first lattice has its molecules at
\* 4 i + 1, the second at 4 i + 3.
Quarter == 4

\* The bounding boxes of the ranks: the whole box for one rank, or the box
\* cut in two at q along one dimension.
Decompositions(n) ==
    LET whole == [min |-> <<0, 0, 0>>, max |-> <<Quarter * n, Quarter * n, Quarter * n>>]
    IN  { <<whole>> }
        \cup { << [whole EXCEPT !.max[dim] = q], [whole EXCEPT !.min[dim] = q] >> :
                  dim \in 1..3, q \in 1..(Quarter * n - 1) }

\* start_i, start_j, start_k: floor(min / _simBoxLength * numMoleculesPerDimension) - 1
GridStart(box, dim) == (box.min[dim] \div Quarter) - 1

\* end_i, end_j, end_k: ceil(max / _simBoxLength * numMoleculesPerDimension) + 1
GridEnd(box, dim) == ((box.max[dim] + Quarter - 1) \div Quarter) + 1

\* The number of passes of the loop over a dimension.
GridCount(box, dim) == GridEnd(box, dim) - GridStart(box, dim)

\* DomainDecompBase::procOwnsPos
procOwnsPos(box, x) == \A dim \in 1..3 : box.min[dim] <= x[dim] /\ x[dim] < box.max[dim]

\* The two loop nests of readPhaseSpace on a rank: every (i, j, k) of the
\* rank's range with the id it has when the loops reach it.  id starts at 1
\* and is incremented once per position, owned or not; the second nest goes
\* on counting where the first stopped.
Enumerated(box, n) ==
    LET nj == GridCount(box, 2)
        nk == GridCount(box, 3)
        all == GridCount(box, 1) * nj * nk
    IN  { [id |-> 1 + lattice * all
                    + ((i - GridStart(box, 1)) * nj + (j - GridStart(box, 2))) * nk
                    + (k - GridStart(box, 3)),
           lattice |-> lattice, ijk |-> <<i, j, k>>,
           x |-> <<Quarter * i + 1 + 2 * lattice, Quarter * j + 1 + 2 * lattice,
                   Quarter * k + 1 + 2 * lattice>>] :
             lattice \in 0..1,
             i \in GridStart(box, 1)..(GridEnd(box, 1) - 1),
             j \in GridStart(box, 2)..(GridEnd(box, 2) - 1),
             k \in GridStart(box, 3)..(GridEnd(box, 3) - 1) }

\* addMolecule(x, y, z, id, particleContainer) for the positions the rank owns.
Added(box, n) == {e \in Enumerated(box, n) : procOwnsPos(box, e.x)}

InitGen ==
    /\ \E n \in 1..MaxPerDimension :
          \E boxes \in Decompositions(n) :
             gen = [on |-> TRUE, numMoleculesPerDimension |-> n, boxes |-> boxes,
                    particleContainer |-> [r \in 1..Len(boxes) |-> {}],
                    enumerated |-> [r \in 1..Len(boxes) |-> {}],
                    ran |-> {}]
    /\ vecType = "NOVEC"
    /\ cells = << >> /\ soas = << >> /\ _particleCellDataVector = << >>
    /\ _upot6lj = 0 /\ _upotXpoles = 0 /\ _virial = 0 /\ _myRF = 0
    /\ lastOp = NoOp /\ nCalls = 0 /\ budget = 0
    /\ dl = Off /\ lb = Off /\ rk = Off
    /\ _domain = NoDomain /\ nc = Off /\ sim = Off /\ hs = Off
    /\ LaterOff

genOthers == <<vecType, processorVars, dl, lb, rk, _domain, nc, sim, hs, laterVars>>

\* CubicGridGenerator::readPhaseSpace on rank r
readPhaseSpace ==
    /\ gen.on
    /\ \E r \in 1..Len(gen.boxes) :
          /\ r \notin gen.ran
          /\ gen' = [gen EXCEPT
                        !.particleContainer[r] = Added(gen.boxes[r], gen.numMoleculesPerDimension),
                        !.enumerated[r] = Enumerated(gen.boxes[r], gen.numMoleculesPerDimension),
                        !.ran = @ \cup {r}]
    /\ UNCHANGED genOthers

NextGen == readPhaseSpace

SpecGen == InitGen /\ [][NextGen]_vars

\* C20: the ids readPhaseSpace assigns are unique across the ranks of a run:
\* for every decomposition no two molecules added to any container carry
\* the same id, and every lattice position has the same id on every rank
\* that enumerates it.
C20_IdsUnique ==
    gen.on =>
       \A r1, r2 \in gen.ran :
          /\ \A m1 \in gen.particleContainer[r1], m2 \in gen.particleContainer[r2] :
                m1.id = m2.id => (r1 = r2 /\ m1 = m2)
          /\ \A e1 \in gen.enumerated[r1], e2 \in gen.enumerated[r2] :
                (e1.lattice = e2.lattice /\ e1.ijk = e2.ijk) => e1.id = e2.id


(***************************************************************************)
(* Specification SpecThreads: preprocessCell and postprocessCell of two    *)
(* threads on the pool of one processor                                    *)
(***************************************************************************)
Threads == 1..2
PoolCells == 1..2
PoolSlabs == <<1, 2>>

\* The largest number of calls a thread makes.
MaxThreadCalls == 2

\* After initTraversal(2): the pool holds two slabs, no cell has one.  serial
\* tells whether the caller lets a call start only when no other call runs;
\* the two functions themselves take no lock.
InitThreads ==
    /\ \E serial \in BOOLEAN :
          th = [on |-> TRUE, serial |-> serial,
                _particleCellDataVector |-> PoolSlabs,
                getCellDataSoA |-> [c \in PoolCells |-> 0],
                pc |-> [t \in Threads |-> "idle"],
                c |-> [t \in Threads |-> 0],
                soaPtr |-> [t \in Threads |-> 0],
                calls |-> [t \in Threads |-> 0],
                undefined |-> FALSE]
    /\ vecType = "NOVEC"
    /\ cells = << >> /\ soas = << >> /\ _particleCellDataVector = << >>
    /\ _upot6lj = 0 /\ _upotXpoles = 0 /\ _virial = 0 /\ _myRF = 0
    /\ lastOp = NoOp /\ nCalls = 0 /\ budget = 0
    /\ dl = Off /\ lb = Off /\ rk = Off
    /\ _domain = NoDomain /\ nc = Off /\ sim = Off /\ hs = Off /\ gen = Off
    /\ mir = Off /\ ctor = Off /\ fc = Off /\ tab = Off

threadOthers == <<vecType, processorVars, dl, lb, rk, _domain, nc, sim, hs, gen, mir, ctor, fc, tab>>

\* A thread may enter a call on cell c: no other thread works on c, and
\* with a serialising caller no other thread is inside a call.
MayEnter(t, c) ==
    /\ th.on /\ th.pc[t] = "idle" /\ th.calls[t] < MaxThreadCalls
    /\ \A u \in Threads \ {t} : th.c[u] # c
    /\ th.serial => \A u \in Threads : th.pc[u] = "idle"

\* preprocessCell(c) is entered: assert(!c.getCellDataSoA()).
enterPreprocessCell(t, c) ==
    /\ MayEnter(t, c)
    /\ th.getCellDataSoA[c] = 0
    /\ th' = [th EXCEPT !.pc[t] = "back", !.c[t] = c, !.calls[t] = @ + 1]
    /\ UNCHANGED threadOthers

\* assert(!_particleCellDataVector.empty()); soaPtr = _particleCellDataVector.back()
readBack(t) ==
    /\ th.on /\ th.pc[t] = "back"
    /\ th._particleCellDataVector # << >>
    /\ th' = [th EXCEPT !.soaPtr[t] = Back(th._particleCellDataVector), !.pc[t] = "set"]
    /\ UNCHANGED threadOthers

\* soa.resize(...); c.setCellDataSoA(soaPtr)
setCellDataSoA(t) ==
    /\ th.on /\ th.pc[t] = "set"
    /\ th' = [th EXCEPT !.getCellDataSoA[th.c[t]] = th.soaPtr[t], !.pc[t] = "pop"]
    /\ UNCHANGED threadOthers

\* _particleCellDataVector.pop_back(), then the fill loop and the return.
\* On an empty vector pop_back is undefined.
popBack(t) ==
    /\ th.on /\ th.pc[t] = "pop"
    /\ th' = IF th._particleCellDataVector = << >>
             THEN [th EXCEPT !.undefined = TRUE, !.pc[t] = "idle", !.c[t] = 0]
             ELSE [th EXCEPT !._particleCellDataVector = PopBack(@), !.pc[t] = "idle", !.c[t] = 0]
    /\ UNCHANGED threadOthers

\* postprocessCell(c) is entered and has written the molecules back.
enterPostprocessCell(t, c) ==
    /\ MayEnter(t, c)
    /\ th.getCellDataSoA[c] # 0
    /\ th' = [th EXCEPT !.pc[t] = "push", !.c[t] = c, !.soaPtr[t] = th.getCellDataSoA[c],
                        !.calls[t] = @ + 1]
    /\ UNCHANGED threadOthers

\* _particleCellDataVector.push_back(&soa)
pushBack(t) ==
    /\ th.on /\ th.pc[t] = "push"
    /\ th' = [th EXCEPT !._particleCellDataVector = Append(@, th.soaPtr[t]), !.pc[t] = "clear"]
    /\ UNCHANGED threadOthers

\* c.setCellDataSoA(0) and the return.
clearCellDataSoA(t) ==
    /\ th.on /\ th.pc[t] = "clear"
    /\ th' = [th EXCEPT !.getCellDataSoA[th.c[t]] = 0, !.pc[t] = "idle", !.c[t] = 0]
    /\ UNCHANGED threadOthers

NextThreads ==
    \/ \E t \in Threads, c \in PoolCells : enterPreprocessCell(t, c)
    \/ \E t \in Threads : readBack(t)
    \/ \E t \in Threads : setCellDataSoA(t)
    \/ \E t \in Threads : popBack(t)
    \/ \E t \in Threads, c \in PoolCells : enterPostprocessCell(t, c)
    \/ \E t \in Threads : pushBack(t)
    \/ \E t \in Threads : clearCellDataSoA(t)

SpecThreads == InitThreads /\ [][NextThreads]_vars

\* The places a slab is at: in the pool and at cells.
PlacesOfSlab(slab) ==
    Cardinality({k \in 1..Len(th._particleCellDataVector) : th._particleCellDataVector[k] = slab})
    + Cardinality({c \in PoolCells : th.getCellDataSoA[c] = slab})

\* No two cells hold the same slab, the pool holds no slab twice, and when
\* no call is running every slab is at exactly one place.
PoolIntact ==
    /\ ~th.undefined
    /\ \A c1, c2 \in PoolCells :
          (c1 # c2 /\ th.getCellDataSoA[c1] # 0) => th.getCellDataSoA[c1] # th.getCellDataSoA[c2]
    /\ \A j, k \in 1..Len(th._particleCellDataVector) :
          j # k => th._particleCellDataVector[j] # th._particleCellDataVector[k]
    /\ (\A t \in Threads : th.pc[t] = "idle") =>
          \A k \in 1..Len(PoolSlabs) : PlacesOfSlab(PoolSlabs[k]) = 1

CoreOff ==
    /\ vecType = "NOVEC"
    /\ cells = << >> /\ soas = << >> /\ _particleCellDataVector = << >>
    /\ _upot6lj = 0 /\ _upotXpoles = 0 /\ _virial = 0 /\ _myRF = 0
    /\ lastOp = NoOp /\ nCalls = 0 /\ budget = 0
    /\ dl = Off /\ lb = Off /\ rk = Off
    /\ _domain = NoDomain /\ nc = Off /\ sim = Off /\ hs = Off /\ gen = Off

coreVars == <<vecType, processorVars, dl, lb, rk, _domain, nc, sim, hs, gen>>

\* The largest simulation step of the ramp, and the number of particles the
\* region iterator yields.
MaxRampStep == 2
MaxParticles == 2

\* A node that the configuration file does not hold (getNodeValue returns false).
Missing == -1

MirrorVersions == {"plugins", "part_005"}

\* Steps the simulation can be at when beforeForces runs.
SimSteps == 0..(MaxRampStep + 1)

\* Random numbers of _rnd->rnd(), in [0, 1), scaled by One.
Rnds == {0, One \div 2, One - 1}

\* The nodes of a configuration that readXML reads.
MirrorXml(type, refID, subject, velo_target, use_probability, start, stop, treatment, dir, cid) ==
    [type |-> type, refID |-> refID, subject |-> subject,
     velo_target |-> velo_target, use_probability |-> use_probability,
     start |-> start, stop |-> stop, treatment |-> treatment,
     direction |-> dir, cid |-> cid]

\* Configurations of a Meland mirror, for both versions of readXML.
MelandConfigs ==
    {[version |-> v,
      xml |-> MirrorXml("MT_MELAND_2004", refID, subject, velo, prob,
                        Missing, Missing, Missing, "MD_LEFT_MIRROR", 0)] :
        v \in MirrorVersions, refID \in {0, 1}, subject \in BOOLEAN,
        velo \in BOOLEAN, prob \in BOOLEAN}

\* Configurations of the deprecated types.
DeprecatedConfigs ==
    {[version |-> "plugins",
      xml |-> MirrorXml(type, 0, FALSE, FALSE, FALSE,
                        Missing, Missing, Missing, "MD_LEFT_MIRROR", 0)] :
        type \in {"MT_ZERO_GRADIENT", "MT_NORMDISTR_MB"}}

\* Configurations of a ramping mirror; only plugins/Mirror.cpp knows the type.
RampingConfigs ==
    {[version |-> "plugins",
      xml |-> MirrorXml("MT_RAMPING", 0, FALSE, FALSE, FALSE,
                        start, stop, treatment, dir, cid)] :
        start \in {Missing} \cup 0..MaxRampStep,
        stop \in {Missing} \cup 0..MaxRampStep,
        treatment \in {Missing, 0, 1, 2},
        dir \in {"MD_LEFT_MIRROR", "MD_RIGHT_MIRROR"}, cid \in {0, 2}}

\* Simulation::exit(code): the process ends with that code.
Exited(m, code) == [m EXCEPT !.pc = "exited", !.exitCode = code]

\* The Meland block of readXML (plugins/Mirror.cpp 131-146, part_005 137-150).
readMeland(m) ==
    IF m.version = "plugins"
    THEN IF ~m.xml.velo_target THEN Exited(m, -2004) ELSE m
    ELSE IF ~(m.xml.use_probability /\ m.xml.velo_target) THEN Exited(m, -2004) ELSE m

\* The ramping block of readXML (plugins/Mirror.cpp 148-179).
readRamping(m) ==
    LET bRet == m.xml.start # Missing /\ m.xml.stop # Missing /\ m.xml.treatment # Missing
    IN  IF ~bRet THEN Exited(m, -1)
        ELSE IF m.xml.start > m.xml.stop THEN Exited(m, -1)
        ELSE IF m.xml.treatment \notin {0, 1} THEN Exited(m, -1)
        ELSE [m EXCEPT !._rampingParams =
                 [startStep |-> m.xml.start, stopStep |-> m.xml.stop,
                  treatment |-> m.xml.treatment]]

\* Mirror::readXML, up to the first call of Simulation::exit.
ReadXML(m) ==
    LET typed == [m EXCEPT !._type = m.xml.type, !._direction = m.xml.direction,
                           !._targetComp = m.xml.cid, !.pc = "configured"]
    IN  IF m.version = "plugins" /\ m.xml.refID > 0 /\ ~m.xml.subject THEN Exited(typed, -1)
        ELSE IF m.version = "plugins" /\ typed._type \in {"MT_ZERO_GRADIENT", "MT_NORMDISTR_MB"}
             THEN Exited(typed, -1)
        ELSE IF typed._type = "MT_MELAND_2004" THEN readMeland(typed)
        ELSE IF m.version = "plugins" /\ typed._type = "MT_RAMPING" THEN readRamping(typed)
        ELSE typed

InitMirror ==
    /\ \E c \in MelandConfigs \cup DeprecatedConfigs \cup RampingConfigs :
          mir = [on |-> TRUE, version |-> c.version, xml |-> c.xml, pc |-> "start",
                 exitCode |-> 0, _type |-> "MT_UNKNOWN", _direction |-> "MD_LEFT_MIRROR",
                 _targetComp |-> 0,
                 _rampingParams |-> [startStep |-> 0, stopStep |-> 0, treatment |-> 0],
                 currentSimstep |-> 0, ratioRefl |-> 0, inBox |-> FALSE,
                 before |-> << >>, frnd |-> << >>, particles |-> << >>,
                 reflected |-> [k \in 0..2 |-> 0], deleted |-> [k \in 0..2 |-> 0]]
    /\ CoreOff
    /\ th = Off /\ ctor = Off /\ fc = Off /\ tab = Off

mirrorOthers == <<coreVars, th, ctor, fc, tab>>

\* The float quotient n / d scaled by One; a zero divisor gives no finite value.
Inf == One * One
FloatDiv(n, d) == IF d = 0 THEN Inf ELSE Quot(n * One, d)

\* The ratio stays 1 until the ramp stops.
ratioRefl_noRamp(currentSimstep, startStep, stopStep) ==
    IF currentSimstep < stopStep THEN One ELSE 0

\* The reflection ratio at a step (plugins/Mirror.cpp 340-348), scaled by One.
ratioRefl(currentSimstep, startStep, stopStep) ==
    IF currentSimstep <= startStep THEN One
    ELSE IF currentSimstep > startStep /\ currentSimstep < stopStep
         THEN FloatDiv(stopStep - currentSimstep, stopStep - startStep)
    ELSE 0

\* The particles a region iterator can yield: component id and y velocity.
MirrorParticle == [cid : {0, 1}, vy : {-1, 1}, deleted : {FALSE}]

SeqsUpTo(S, n) == UNION {[1..k -> S] : k \in 0..n}

\* The particle passes the two filters of the loop (329, 333).
Handled(m, p) ==
    /\ ~(m._targetComp # 0 /\ p.cid + 1 # m._targetComp)
    /\ ~((m._direction = "MD_RIGHT_MIRROR" /\ p.vy < 0) \/ (m._direction = "MD_LEFT_MIRROR" /\ p.vy > 0))

Bump(count, cid_ub) == [count EXCEPT ![0] = @ + 1, ![cid_ub] = @ + 1]

\* One pass of the loop over the particles of the region (325-367).
HandleParticle(m, i, ratio) ==
    LET p == m.particles[i]
        cid_ub == p.cid + 1
    IN  IF ~Handled(m, p) THEN m
        ELSE IF m.frnd[i] <= ratio
             THEN [m EXCEPT !.particles[i].vy = -p.vy, !.reflected = Bump(@, cid_ub)]
        ELSE IF m._rampingParams.treatment = 0
             THEN [m EXCEPT !.particles[i].deleted = TRUE, !.deleted = Bump(@, cid_ub)]
        ELSE m

RECURSIVE HandleParticles(_, _, _)
HandleParticles(m, i, ratio) ==
    IF i > Len(m.particles) THEN m
    ELSE HandleParticles(HandleParticle(m, i, ratio), i + 1, ratio)

\* Mirror::readXML.
readXML ==
    /\ mir.on /\ mir.pc = "start"
    /\ mir' = ReadXML(mir)
    /\ UNCHANGED mirrorOthers

\* Mirror::beforeForces of a ramping mirror at a simulation step: the region
\* holds the particles ps, rnd() returns frnd[i] in pass i.  inBox is the test
\* of the mirror position against the bounding box (302-303).
beforeForces ==
    /\ mir.on /\ mir.pc = "configured" /\ mir._type = "MT_RAMPING"
    /\ \E step \in SimSteps, inBox \in BOOLEAN, ps \in SeqsUpTo(MirrorParticle, MaxParticles) :
       \E frnd \in [1..Len(ps) -> Rnds] :
          LET ratio == ratioRefl(step, mir._rampingParams.startStep, mir._rampingParams.stopStep)
              m0 == [mir EXCEPT !.pc = "handled", !.currentSimstep = step, !.inBox = inBox,
                                !.before = ps, !.frnd = frnd, !.particles = ps,
                                !.ratioRefl = ratio]
          IN  mir' = IF inBox THEN HandleParticles(m0, 1, ratio) ELSE m0
    /\ UNCHANGED mirrorOthers

NextMirror == readXML \/ beforeForces

SpecMirror == InitMirror /\ [][NextMirror]_vars

\* A required parameter of the Meland block is missing in the configuration.
MelandParameterMissing ==
    /\ mir.xml.type = "MT_MELAND_2004"
    /\ IF mir.version = "plugins" THEN ~mir.xml.velo_target
       ELSE ~(mir.xml.use_probability /\ mir.xml.velo_target)

\* C22: when the mirror type is MT_MELAND_2004 and a required Meland
\* parameter is missing, readXML ends the process with exit code 2004.
C22_ExitCode2004 ==
    (mir.on /\ mir.pc # "start" /\ MelandParameterMissing
       /\ ~(mir.version = "plugins" /\ mir.xml.refID > 0 /\ ~mir.xml.subject))
    => (mir.pc = "exited" /\ mir.exitCode = 2004)

\* The ramp as the claim states it, scaled by One.
RampValue(step, startStep, stopStep) ==
    IF step <= startStep THEN One
    ELSE IF step >= stopStep THEN 0
    ELSE Quot((stopStep - step) * One, stopStep - startStep)

\* Number of passes i of the last beforeForces call that satisfy Test(i).
CountPasses(Test(_)) == Cardinality({i \in 1..Len(mir.before) : Test(i)})

Reflected(i) == mir.particles[i].vy = -mir.before[i].vy
Deleted(i) == mir.particles[i].deleted

\* C30: for a ramping mirror with parameters that readXML accepted
\* (startStep <= stopStep), the reflection ratio of beforeForces is 1 up to
\* startStep, 0 from stopStep on and (stopStep - step) / (stopStep - startStep)
\* in between; it lies in [0, 1], does not increase with the step and is never
\* the result of a division by zero, also for startStep = stopStep.  A handled
\* particle that is not reflected is deleted under treatment 0 and left
\* unchanged under treatment 1, and every particle increases exactly one of
\* the reflected and deleted counters, or none.
C30_RampingRatio ==
    (mir.on /\ mir.pc = "handled") =>
        LET start == mir._rampingParams.startStep
            stop == mir._rampingParams.stopStep
        IN  /\ start <= stop /\ mir._rampingParams.treatment \in {0, 1}
            /\ mir.ratioRefl = RampValue(mir.currentSimstep, start, stop)
            /\ mir.ratioRefl # Inf /\ mir.ratioRefl >= 0 /\ mir.ratioRefl <= One
            /\ \A s \in SimSteps : \A t \in SimSteps :
                  s <= t => /\ ratioRefl(t, start, stop) <= ratioRefl(s, start, stop)
                            /\ ratioRefl(s, start, stop) # Inf
            /\ mir.inBox =>
                 /\ \A i \in 1..Len(mir.before) :
                       /\ ~(Reflected(i) /\ Deleted(i))
                       /\ (Reflected(i) \/ Deleted(i)) => Handled(mir, mir.before[i])
                       /\ Reflected(i) <=> (Handled(mir, mir.before[i]) /\ mir.frnd[i] <= mir.ratioRefl)
                       /\ (Handled(mir, mir.before[i]) /\ ~Reflected(i)) =>
                             IF mir._rampingParams.treatment = 0 THEN Deleted(i)
                             ELSE mir.particles[i] = mir.before[i]
                       /\ ~Handled(mir, mir.before[i]) => mir.particles[i] = mir.before[i]
                 /\ mir.reflected[0] = CountPasses(Reflected)
                 /\ mir.deleted[0] = CountPasses(Deleted)
                 /\ mir.reflected[0] + mir.deleted[0] <= Len(mir.before)
                 /\ \A c \in 1..2 :
                       /\ mir.reflected[c] = CountPasses(LAMBDA i : Reflected(i) /\ mir.before[i].cid + 1 = c)
                       /\ mir.deleted[c] = CountPasses(LAMBDA i : Deleted(i) /\ mir.before[i].cid + 1 = c)

\* beforeForces ran inside the ramp of a mirror with startStep < stopStep, on
\* two particles of which one was reflected and the other one deleted.
C30_Witness ==
    /\ mir.on /\ mir.pc = "handled" /\ mir.inBox
    /\ mir._rampingParams.startStep < mir.currentSimstep
    /\ mir.currentSimstep < mir._rampingParams.stopStep
    /\ mir.ratioRefl = One \div 2
    /\ mir._rampingParams.treatment = 0
    /\ Len(mir.before) = 2
    /\ mir.reflected[0] = 1 /\ mir.deleted[0] = 1

\* beforeForces ran on a mirror whose ramp starts and stops at the same step.
C30_WitnessEqualSteps ==
    /\ mir.on /\ mir.pc = "handled" /\ mir.inBox
    /\ mir._rampingParams.startStep = mir._rampingParams.stopStep
    /\ mir.currentSimstep > mir._rampingParams.stopStep
    /\ mir._rampingParams.treatment = 1
    /\ \E i \in 1..Len(mir.before) :
          Handled(mir, mir.before[i]) /\ mir.particles[i] = mir.before[i]

\* ---------------------------------------------------------------------------
\* The constructor of Simulation with the fallback command-line parser, on
\* the ranks of a parallel run (part_003 172-440).
\* ---------------------------------------------------------------------------

\* The largest *argc and the number of ranks followed.
MaxArgc == 4
NumRanks == 2

MpiRanks == 0..(NumRanks - 1)

\* What a command line can hold after the program name.
Tokens == {"-h", "-t", "-p", "-i", "in.xml", "5"}

\* The pointer behind the last argument.
NullArg == "NULL"

\* The argument vectors: argv[k + 1] is (*argv)[k], argv[1] the program name.
ArgVectors == {<<"mardyn">> \o a : a \in UNION {[1..n -> Tokens] : n \in 0..(MaxArgc - 1)}}

\* A command line that passes the parser.
GoodArgv == <<"mardyn", "-t", "5", "in.xml">>

\* What rank 0 finds in the configuration: the version, whether the phase
\* space file can be opened, and the phase space format.
Configs == [versionOld : BOOLEAN, phaseOpenable : BOOLEAN, format : {"ASCII", "XML"}]

GoodConfig == [versionOld |-> FALSE, phaseOpenable |-> TRUE, format |-> "ASCII"]

\* (*argv)[k]
ArgAt(argv, k) == IF k < Len(argv) THEN argv[k + 1] ELSE NullArg

atoi(token) == IF token = "5" THEN 5 ELSE 0

\* Options after which the parser reads the next argument.
ValueOptions == {"-t", "-f", "-p", "-o", "--timesteps", "--output-frequency",
                 "--output-filename", "--output"}

\* One pass of "while(arg_c < *argc)" (187-219).
ParseStep(argv, st) ==
    LET token == ArgAt(argv, st.arg_c)
        seen == [st EXCEPT !.maxRead = Max(@, st.arg_c)]
    IN  IF token \in {"-h", "--help"} THEN [seen EXCEPT !._cl_help = TRUE, !.arg_c = @ + 1]
        ELSE IF token \in {"-v", "--version"} THEN [seen EXCEPT !._cl_version = TRUE, !.arg_c = @ + 1]
        ELSE IF token \in ValueOptions
             THEN LET value == ArgAt(argv, st.arg_c + 1)
                      read == [seen EXCEPT !.maxRead = Max(@, st.arg_c + 1),
                                           !.nullRead = @ \/ value = NullArg,
                                           !.arg_c = @ + 2]
                  IN  IF token \in {"-t", "--timesteps"} THEN [read EXCEPT !._cl_timesteps = atoi(value)]
                      ELSE IF token \in {"-p", "--output-filename"}
                           THEN [read EXCEPT !._cl_output_filename = value]
                      ELSE read
        ELSE IF token \in {"-i", "--incremental"} THEN [seen EXCEPT !._cl_incremental = TRUE, !.arg_c = @ + 1]
        ELSE [seen EXCEPT !._cl_input_file = token, !.arg_c = @ + 1]

\* The loop of the parser (186-219).
RECURSIVE ParseFrom(_, _)
ParseFrom(argv, st) ==
    IF st.arg_c < Len(argv) THEN ParseFrom(argv, ParseStep(argv, st)) ELSE st

\* The locals of the parser before the loop (178-186).
ParserStart ==
    [arg_c |-> 1, _cl_help |-> FALSE, _cl_version |-> FALSE, _cl_incremental |-> FALSE,
     _cl_input_file |-> "", _cl_output_filename |-> "default", _cl_timesteps |-> 0,
     maxRead |-> 0, nullRead |-> FALSE]

\* A rank before it has parsed anything.  collectives counts the groups of
\* MPI_Bcast, MPI_Bcast, MPI_Barrier that the rank has entered.
RankStart == [pc |-> "parse", cl |-> ParserStart, exitCode |-> 0, cause |-> "none",
              usage |-> FALSE, collectives |-> 0]

InitCtor ==
    /\ \E argv \in ArgVectors, config \in Configs :
          /\ argv = GoodArgv \/ config = GoodConfig
          /\ ctor = [on |-> TRUE, argv |-> argv, config |-> config,
                     rank |-> [r \in MpiRanks |-> RankStart]]
    /\ CoreOff
    /\ th = Off /\ mir = Off /\ fc = Off /\ tab = Off

ctorOthers == <<coreVars, th, mir, fc, tab>>

\* exit(code) on rank r.
Exit(r, code, cause) ==
    ctor' = [ctor EXCEPT !.rank[r].pc = "exited", !.rank[r].exitCode = code,
                         !.rank[r].cause = cause]

\* Lines 186-259 on rank r: the parser, then the usage text and the exit for
\* fewer than four arguments or -h.  Reading the pointer behind the last
\* argument and handing it to atoi or std::string is undefined: the rank
\* crashes or goes on with some value.
parseCommandLine(r) ==
    /\ ctor.on /\ ctor.rank[r].pc = "parse"
    /\ LET cl == ParseFrom(ctor.argv, ParserStart)
       IN  \E crash \in {b \in BOOLEAN : b => cl.nullRead} :
              ctor' = [ctor EXCEPT
                         !.rank[r].cl = cl,
                         !.rank[r].usage = ~crash /\ (Len(ctor.argv) < 4 \/ cl._cl_help) /\ r = 0,
                         !.rank[r].exitCode =
                             IF crash \/ ~(Len(ctor.argv) < 4 \/ cl._cl_help) THEN 0
                             ELSE IF cl._cl_help THEN 0 ELSE 1,
                         !.rank[r].cause =
                             IF ~crash /\ (Len(ctor.argv) < 4 \/ cl._cl_help) THEN "usage" ELSE "none",
                         !.rank[r].pc =
                             IF crash THEN "crashed"
                             ELSE IF Len(ctor.argv) < 4 \/ cl._cl_help THEN "exited"
                             ELSE "xml"]
    /\ UNCHANGED ctorOthers

\* Rank r enters the broadcast of the configuration (326-340).
enterXmlBcast(r) ==
    /\ ctor.on /\ ctor.rank[r].pc = "xml"
    /\ ctor' = [ctor EXCEPT !.rank[r].pc = "xmlBarrier", !.rank[r].collectives = 1]
    /\ UNCHANGED ctorOthers

\* Every rank has entered collective k.
AllEntered(k) == \A q \in MpiRanks : ctor.rank[q].collectives >= k

\* Rank r leaves MPI_Barrier (340) once every rank has entered it.
leaveXmlBarrier(r) ==
    /\ ctor.on /\ ctor.rank[r].pc = "xmlBarrier" /\ AllEntered(1)
    /\ ctor' = [ctor EXCEPT !.rank[r].pc = "checks"]
    /\ UNCHANGED ctorOthers

\* Lines 345-449 up to the next collective: the version and the phase space
\* file are looked at on rank 0 only, the format on every rank.
checkConfig(r) ==
    /\ ctor.on /\ ctor.rank[r].pc = "checks"
    /\ IF r = 0 /\ ctor.config.versionOld THEN Exit(r, 1, "version")
       ELSE IF r = 0 /\ ~ctor.config.phaseOpenable THEN Exit(r, 1, "phase-space")
       ELSE IF ctor.config.format # "ASCII" THEN Exit(r, 1, "format")
       ELSE ctor' = [ctor EXCEPT !.rank[r].pc = "phaseBarrier", !.rank[r].collectives = 2]
    /\ UNCHANGED ctorOthers

\* Rank r leaves MPI_Barrier (439) once every rank has entered it.
leavePhaseBarrier(r) ==
    /\ ctor.on /\ ctor.rank[r].pc = "phaseBarrier" /\ AllEntered(2)
    /\ ctor' = [ctor EXCEPT !.rank[r].pc = "constructed"]
    /\ UNCHANGED ctorOthers

NextCtor ==
    \E r \in MpiRanks :
        \/ parseCommandLine(r)
        \/ enterXmlBcast(r)
        \/ leaveXmlBarrier(r)
        \/ checkConfig(r)
        \/ leavePhaseBarrier(r)

SpecCtor == InitCtor /\ [][NextCtor]_vars

\* Rank r waits in a collective that rank 0 will never enter.
BlockedForever(r) ==
    /\ ctor.rank[0].pc \in {"exited", "crashed"}
    /\ \/ ctor.rank[r].pc = "xmlBarrier" /\ ctor.rank[0].collectives < 1
       \/ ctor.rank[r].pc = "phaseBarrier" /\ ctor.rank[0].collectives < 2

\* C28: when rank 0 ends the run because of a configuration error that only
\* rank 0 checks (version too old, phase space file not openable), no other
\* rank is left waiting in a later MPI_Bcast or MPI_Barrier.
C28_NoRankBlocked ==
    (ctor.on /\ ctor.rank[0].pc = "exited" /\ ctor.rank[0].cause \in {"version", "phase-space"})
    => \A r \in MpiRanks \ {0} : ~BlockedForever(r)

\* C29: the parser never reads (*argv)[k] with k >= *argc, also when the last
\* argument is an option that expects a value, and fewer than four entries
\* or -h lead to the usage text and to exit status 0 for -h, 1 otherwise.
C29_ReadsInsideArgv ==
    ctor.on =>
      \A r \in MpiRanks :
         ctor.rank[r].pc # "parse" =>
            /\ ctor.rank[r].cl.maxRead < Len(ctor.argv)
            /\ ctor.rank[r].pc # "crashed"
            /\ (Len(ctor.argv) < 4 \/ ctor.rank[r].cl._cl_help) =>
                  /\ ctor.rank[r].pc = "exited"
                  /\ ctor.rank[r].exitCode = IF ctor.rank[r].cl._cl_help THEN 0 ELSE 1
                  /\ r = 0 => ctor.rank[r].usage

\* ---------------------------------------------------------------------------
\* LJFlopCounter (tools/gui/generators/CubicGridGenerator.cpp 288-425) next to
\* the choices of VectorizedCellProcessor::processCell and processCellPair.
\* ---------------------------------------------------------------------------

\* Calls of processCell and processCellPair of the counter that are followed.
MaxFlopCalls == 3

\* The two cells the counter is run on: positions and numbers of LJ centres
\* of their molecules.
FlopMolecules ==
    << << [r |-> <<0, 0, 0>>, numLJcenters |-> 2], [r |-> <<1, 0, 0>>, numLJcenters |-> 1] >>,
       << [r |-> <<0, 1, 0>>, numLJcenters |-> 1], [r |-> <<3, 1, 0>>, numLJcenters |-> 2] >> >>

NoCounts == [calc_molDist |-> 0, calc_LJ |-> 0, calc_Macro |-> 0]

\* The cells with their slabs attached, as preprocessCell leaves them; of a
\* slab only _mol_num is looked at here.  vcp counts the LJ centre pairs for
\* which the processor computes forces and accumulates macroscopic values in
\* the calls the counter has seen.
InitFlops ==
    /\ \E halo \in [1..2 -> BOOLEAN], ascending \in BOOLEAN :
          cells = [c \in 1..2 |->
                      [isHaloCell |-> halo[c],
                       getCellIndex |-> IF ascending THEN c - 1 ELSE 2 - c,
                       molecules |-> FlopMolecules[c], getCellDataSoA |-> c]]
    /\ soas = [c \in 1..2 |-> [_mol_num |-> Len(FlopMolecules[c])]]
    /\ fc = [on |-> TRUE, _currentCounts |-> NoCounts, vcp |-> NoCounts, calls |-> 0]
    /\ vecType = "NOVEC" /\ _particleCellDataVector = << >>
    /\ _upot6lj = 0 /\ _upotXpoles = 0 /\ _virial = 0 /\ _myRF = 0
    /\ lastOp = NoOp /\ nCalls = 0 /\ budget = 0
    /\ dl = Off /\ lb = Off /\ rk = Off
    /\ _domain = NoDomain /\ nc = Off /\ sim = Off /\ hs = Off /\ gen = Off
    /\ th = Off /\ mir = Off /\ ctor = Off /\ tab = Off

flopOthers == <<coreVars, th, mir, ctor, tab>>

\* Molecule::isLessThan: the order of the positions, z first.
isLessThan(m1, m2) ==
    \/ m1.r[3] < m2.r[3]
    \/ m1.r[3] = m2.r[3] /\ m1.r[2] < m2.r[2]
    \/ m1.r[3] = m2.r[3] /\ m1.r[2] = m2.r[2] /\ m1.r[1] < m2.r[1]

\* d2 < _rc2
InCutoff(m1, m2) ==
    vcp_simd_scalProd(Sub3(m1.r, m2.r), Sub3(m1.r, m2.r)) < _LJCutoffRadiusSquare

\* The LJ centre pairs of the molecule pairs (i, j) of two lists that satisfy
\* Test: centers_i * centers_j summed up.
CentrePairs(ms1, ms2, Test(_, _)) ==
    Cardinality({q \in (1..Len(ms1)) \X (1..Len(ms2)) \X (1..2) \X (1..2) :
                    /\ Test(q[1], q[2])
                    /\ q[3] <= ms1[q[1]].numLJcenters
                    /\ q[4] <= ms2[q[2]].numLJcenters})

AddCounts(counts, molDist, lj, macro) ==
    [calc_molDist |-> counts.calc_molDist + molDist, calc_LJ |-> counts.calc_LJ + lj,
     calc_Macro |-> counts.calc_Macro + macro]

\* LJFlopCounter::initTraversal
flopInitTraversal ==
    /\ fc.on /\ fc.calls > 0
    /\ fc' = [fc EXCEPT !._currentCounts = NoCounts, !.vcp = NoCounts]
    /\ UNCHANGED flopOthers

\* LJFlopCounter::processCell(c) (358-389), and what
\* VectorizedCellProcessor::processCell(c) computes.
flopProcessCell(c) ==
    /\ fc.on /\ fc.calls < MaxFlopCalls
    /\ LET ms == cells[c].molecules
           near == CentrePairs(ms, ms, LAMBDA i, j : i < j /\ InCutoff(ms[i], ms[j]))
           pairs == Cardinality({q \in (1..Len(ms)) \X (1..Len(ms)) : q[1] < q[2]})
           runs == processCellBranch(cells[c])
       IN  fc' = [fc EXCEPT
                     !._currentCounts = IF Len(ms) > 1 THEN AddCounts(@, pairs, near, near) ELSE @,
                     !.vcp = IF runs THEN AddCounts(@, 0, near, near) ELSE @,
                     !.calls = @ + 1]
    /\ UNCHANGED flopOthers

\* LJFlopCounter::processCellPair(c1, c2) (391-425), and what
\* VectorizedCellProcessor::processCellPair(c1, c2) computes.
flopProcessCellPair(c1, c2) ==
    /\ fc.on /\ fc.calls < MaxFlopCalls /\ c1 # c2
    /\ LET ms1 == cells[c1].molecules
           ms2 == cells[c2].molecules
           near == CentrePairs(ms1, ms2, LAMBDA i, j : InCutoff(ms1[i], ms2[j]))
           macro == CentrePairs(ms1, ms2,
                        LAMBDA i, j : /\ InCutoff(ms1[i], ms2[j])
                                      /\ cells[c1].isHaloCell = (~cells[c2].isHaloCell)
                                      /\ isLessThan(ms1[i], ms2[j]))
           branch == processCellPairBranch(cells[c1], cells[c2])
       IN  fc' = [fc EXCEPT
                     !._currentCounts = IF Len(ms1) > 0 /\ Len(ms2) > 0
                                        THEN AddCounts(@, Len(ms1) * Len(ms2), near, macro) ELSE @,
                     !.vcp = IF branch.run
                             THEN AddCounts(@, 0, near, IF branch.CalculateMacroscopic THEN near ELSE 0)
                             ELSE @,
                     !.calls = @ + 1]
    /\ UNCHANGED flopOthers

NextFlops ==
    \/ flopInitTraversal
    \/ \E c \in 1..2 : flopProcessCell(c)
    \/ \E c1, c2 \in 1..2 : flopProcessCellPair(c1, c2)

SpecFlops == InitFlops /\ [][NextFlops]_vars

\* C26: the counter adds to calc_LJ exactly the LJ centre pairs for which
\* the processor computes forces, and to calc_Macro exactly those for which
\* it accumulates the macroscopic values.
C26_CountsWhatIsComputed ==
    fc.on => /\ fc._currentCounts.calc_LJ = fc.vcp.calc_LJ
             /\ fc._currentCounts.calc_Macro = fc.vcp.calc_Macro

\* ---------------------------------------------------------------------------
\* The constructor of VectorizedCellProcessor on a component list
\* (part_001 36-82) and the LJ ids preprocessCell assigns (181).
\* ---------------------------------------------------------------------------

\* The largest component ID and the most LJ centres of a component.
MaxComponentID == 2
MaxLJCenters == 2

\* The component lists: two components with different IDs, each with its
\* number of LJ centres and of Tersoff sites.
ComponentLists ==
    {<<[ID |-> ids[1], numTersoff |-> t[1], ljcenter |-> Zeros3(n[1])],
       [ID |-> ids[2], numTersoff |-> t[2], ljcenter |-> Zeros3(n[2])]>> :
        ids \in {x \in (0..MaxComponentID) \X (0..MaxComponentID) : x[1] # x[2]},
        n \in (0..MaxLJCenters) \X (0..MaxLJCenters), t \in {0, 1} \X {0, 1}}

InitTables ==
    /\ \E comps \in ComponentLists :
          tab = [on |-> TRUE, components |-> comps, constructed |-> FALSE,
                 _compIDs |-> << >>, _eps_sig |-> << >>]
    /\ CoreOff
    /\ th = Off /\ mir = Off /\ ctor = Off /\ fc = Off

tableOthers == <<coreVars, th, mir, ctor, fc>>

\* VectorizedCellProcessor::VectorizedCellProcessor (36-82)
construct ==
    /\ tab.on /\ ~tab.constructed
    /\ tab' = [tab EXCEPT !.constructed = TRUE,
                          !._compIDs = compIDsOf(tab.components),
                          !._eps_sig = epsSigOf(tab.components)]
    /\ UNCHANGED tableOthers

NextTables == construct

SpecTables == InitTables /\ [][NextTables]_vars

\* soa._ljc_id of centre k of a molecule of the component (181).
LJId(component, k) == tab._compIDs[component.ID] + k

\* C27: for every component list, also one in which a component's ID is not
\* its position in the list, the entry of _eps_sig and _shift6 at the row of
\* the global id of centre k of component a and the column of the global id
\* of centre l of component b is (eps*24, sigma^2, shift*6) of the parameter
\* stream of (a, b), or zero for Tersoff centres of the same component.
C27_TableAtGlobalIds ==
    (tab.on /\ tab.constructed) =>
        \A a, b \in 1..Len(tab.components) :
            \A k \in 0..(numLJcenters(tab.components[a]) - 1) :
                \A l \in 0..(numLJcenters(tab.components[b]) - 1) :
                    LET ca == tab.components[a]
                        cb == tab.components[b]
                    IN  tab._eps_sig[LJId(ca, k)][LJId(cb, l)] =
                            IF ca.ID = cb.ID /\ (ca.numTersoff > 0 \/ cb.numTersoff > 0)
                            THEN [eps24 |-> 0, sig2 |-> 0, shift6 |-> 0]
                            ELSE ParaStrm(ca.ID, cb.ID, k, l)

\* The same for the component lists in which every ID is the position.
C27_HoldsForIdAsPosition ==
    (tab.on /\ tab.constructed
       /\ \A a \in 1..Len(tab.components) : tab.components[a].ID = a - 1)
    => C27_TableAtGlobalIds

====
